---- MODULE Spec2Model ----
(***************************************************************************)
(* Integration credential broker and unified meeting-booking orchestrator  *)
(* of the integrations-service (backend/integrations-service/app).         *)
(*                                                                         *)
(* The Integration table is the set `rows`.  Every HTTP handler is an      *)
(* action, or, where the handler talks to the database or to a vendor in   *)
(* separate round trips, one action per round trip: a handler's position   *)
(* between two round trips is the continuation kept in `req`.              *)
(*                                                                         *)
(* Rows of different (organization, type, provider) triples are never read *)
(* or written by the same registry handler, so the registry specifications *)
(* follow one triple, whose provider `prov` is drawn in Init.              *)
(***************************************************************************)
EXTENDS Integers, Sequences, FiniteSets, TLC

VARIABLES
    rows,       \* the integrations table: a set of row records
    nextId,     \* the id the next inserted row gets (uuid4: fresh)
    nextNonce,  \* how many CSRF state tokens secrets.token_urlsafe has issued
    calls,      \* how many requests have been started
    req,        \* per request slot: the handler's continuation
    last,       \* the response of the request that finished most recently
    prev,       \* the response of the request that finished before `last`
    consumed,   \* ids of the rows whose last config write was a successful complete
    prov,       \* the provider of the triple the registry handlers work on
    workers,    \* how many requests the service works on at once
    out         \* the outcome of the capability request served last

vars == <<rows, nextId, nextNonce, calls, req, last, prev, consumed, prov, workers, out>>

-----------------------------------------------------------------------------
(* Bounds of the model *)

MaxReq == 2        \* request slots: requests in flight at once
MaxCalls == 4      \* requests started in one behaviour
MaxConnects == 2   \* OAuth connect calls (state tokens issued) in one behaviour

-----------------------------------------------------------------------------
(* Values *)

None == "None"
Org == "orgA"          \* the organization whose requests the handlers serve
OrgB == "orgB"         \* another organization
Orgs == {Org, OrgB}
Slots == 1..MaxReq

OAuthProviders == {"google_calendar", "calendly", "zoho_bookings", "zoho"}
KeyProviders == {"zoom", "twilio", "gmail"}
Providers == OAuthProviders \cup KeyProviders

TypeOf(p) ==
    CASE p = "zoho" -> "crm"
      [] p = "twilio" -> "sms"
      [] p = "gmail" -> "email"
      [] OTHER -> "meeting"

Clients == {"credA", "credB"}       \* client id / secret pairs a caller supplies
ForgedState == "forged"             \* a state value no connect ever issued
token_urlsafe(n) == "state" \o ToString(n)   \* the n-th token issued: all distinct
TokenOutcomes == {"ok", "http_error", "error_field", "no_access_token", "network"}

(* A credential map is a function from keys to values; dict.get, item
   assignment and dict.pop(key, None). *)
Get(c, k) == IF k \in DOMAIN c THEN c[k] ELSE None
Put(c, k, v) == [x \in (DOMAIN c) \cup {k} |-> IF x = k THEN v ELSE c[x]]
Pop(c, k) == [x \in (DOMAIN c) \ {k} |-> c[x]]
Falsy(v) == v = None \/ v = ""

(* EncryptionService: the blob carries the key it was written under and the
   serialised map; decrypting under another key raises. *)
ENCRYPTION_KEY == "key1"
encrypt_credentials(c) == [key |-> ENCRYPTION_KEY, plain |-> c]
DecryptOk(e) == e.key = ENCRYPTION_KEY
decrypt_credentials(e) == e.plain

-----------------------------------------------------------------------------
(* The table *)

Matches(rs, p, needActive, needConnected) ==
    {row \in rs :
        /\ row.organization_id = Org
        /\ row.type = TypeOf(p)
        /\ row.provider = p
        /\ (needActive => row.is_active)
        /\ (needConnected => row.is_connected)}

NoRow == [id |-> 0]     \* the None that first() returns when nothing matches

(* a lookup that never finds the row *)
QueryFirst_Miss(rs, p, needActive, needConnected) == {NoRow}

(* Query.first(): no ORDER BY, so any matching row may come back. *)
QueryFirst(rs, p, needActive, needConnected) ==
    LET m == Matches(rs, p, needActive, needConnected)
    IN IF m = {} THEN {NoRow} ELSE m

(* Zoho organization ids a caller of the lead import can name *)
ZohoOrgIds == {"zorg", "zorgB"}

(* import_leads_from_zoho_button: the active Zoho CRM rows of every
   organization are walked, rows without a config or whose config does not
   decrypt are skipped, and the first one whose credentials hold the Zoho
   organization id of the request is taken. *)
FindByZohoOrg(rs, zoho_organization_id) ==
    LET m == {row \in rs :
                 /\ row.type = "crm"
                 /\ row.provider = "zoho"
                 /\ row.is_active
                 /\ DecryptOk(row.config)
                 /\ Get(decrypt_credentials(row.config), "zoho_organization_id")
                        = zoho_organization_id}
    IN IF m = {} THEN {NoRow} ELSE m

ById(rs, id) == {row \in rs : row.id = id}

(* filter(Integration.id == integration_id,
          Integration.organization_id == organization_id) *)
Owned(rs, id, organization_id) ==
    {row \in ById(rs, id) : row.organization_id = organization_id}

(* Session.commit() of a loaded row `snap` whose attributes were set to `new`:
   UPDATE ... WHERE id = snap.id of the assigned column config and of the
   flags whose value differs from the loaded one. *)
Flush(rs, snap, new) ==
    {IF row.id = snap.id
        THEN [row EXCEPT
                !.config = new.config,
                !.is_active = IF new.is_active # snap.is_active
                                 THEN new.is_active ELSE @,
                !.is_connected = IF new.is_connected # snap.is_connected
                                    THEN new.is_connected ELSE @]
        ELSE row : row \in rs}

(* the config column left NULL: there is nothing to decrypt *)
NoConfig == [key |-> None, plain |-> <<>>]

(* an insert that leaves the config column out *)
NewRow_NoConfig(id, p, config, connected) ==
    [id |-> id, organization_id |-> Org, type |-> TypeOf(p), provider |-> p,
     config |-> NoConfig, is_active |-> TRUE, is_connected |-> connected]

NewRow(id, p, config, connected) ==
    [id |-> id, organization_id |-> Org, type |-> TypeOf(p), provider |-> p,
     config |-> config, is_active |-> TRUE, is_connected |-> connected]

Idle == [pc |-> "idle"]
NoOut == [op |-> "none"]
NoResp == [seq |-> 0, op |-> "none", status |-> 0]

Finish(r, response) ==
    /\ req' = [req EXCEPT ![r] = Idle]
    /\ last' = [response EXCEPT !.seq = last.seq + 1]
    /\ prev' = last

InFlight == {r \in Slots : req[r].pc # "idle"}

(* A request is taken up by a free slot while the service has a worker left. *)
Started(r) == req[r].pc = "idle" /\ calls < MaxCalls /\ Cardinality(InFlight) < workers

-----------------------------------------------------------------------------
(* OAuth connect: connect_google_calendar, connect_calendly,
   connect_zoho_bookings, connect_zoho_crm *)

ProviderExtras(p) ==
    CASE p = "calendly" -> [environment |-> "production"]
      [] p = "zoho_bookings" ->
            [api_domain |-> "bookings.zoho.in", accounts_server |-> "accounts.zoho.in",
             workspace_id |-> "ws"]
      [] p = "zoho" ->
            [zoho_organization_id |-> "zorg", zoho_region |-> "in",
             zoho_accounts_server |-> "accounts.zoho.in",
             zoho_api_domain |-> "zohoapis.in"]
      [] OTHER -> <<>>

ConnectCredentials(p, client, state) ==
    [client_id |-> client, client_secret |-> client, oauth_state |-> state,
     oauth_user_id |-> "user", oauth_initiated_at |-> "ts"] @@ ProviderExtras(p)

(* state = secrets.token_urlsafe(32); the lookup of the existing row *)
ConnectLookup(r, client) ==
    /\ prov \in OAuthProviders
    /\ Started(r)
    /\ nextNonce < MaxConnects
    /\ \E existing \in QueryFirst(rows, prov, FALSE, FALSE) :
          req' = [req EXCEPT ![r] =
                    [pc |-> "connect_write", op |-> "connect", client |-> client,
                     state |-> token_urlsafe(nextNonce + 1), snap |-> existing]]
    /\ nextNonce' = nextNonce + 1
    /\ calls' = calls + 1
    /\ UNCHANGED <<rows, nextId, last, prev, consumed, prov, workers, out>>

ConnectResponse(c, status, id) ==
    [seq |-> 0, op |-> c.op, status |-> status, integration_id |-> id,
     state |-> c.state, client |-> c.client]

(* the update of the existing row or the insert of a new one, and the commit *)
ConnectWrite(r) ==
    /\ req[r].pc = "connect_write"
    /\ req[r].op = "connect"
    /\ LET c == req[r]
           config == encrypt_credentials(ConnectCredentials(prov, c.client, c.state))
       IN IF c.snap # NoRow
            THEN IF ById(rows, c.snap.id) # {}
                   THEN /\ rows' = Flush(rows, c.snap,
                                         [config |-> config, is_active |-> TRUE,
                                          is_connected |-> FALSE])
                        /\ consumed' = consumed \ {c.snap.id}
                        /\ Finish(r, ConnectResponse(c, 200, c.snap.id))
                        /\ UNCHANGED nextId
                   ELSE \* the row is gone: the UPDATE matches nothing, rollback, 500
                        /\ Finish(r, ConnectResponse(c, 500, None))
                        /\ UNCHANGED <<rows, nextId, consumed>>
            ELSE /\ rows' = rows \cup {NewRow(nextId, prov, config, FALSE)}
                 /\ nextId' = nextId + 1
                 /\ UNCHANGED consumed
                 /\ Finish(r, ConnectResponse(c, 200, nextId))
    /\ UNCHANGED <<nextNonce, calls, prov, workers, out>>

-----------------------------------------------------------------------------
(* API-key providers: store_zoom_credentials, store_twilio_sms_credentials,
   store_gmail_credentials *)

StoreCredentials(p, client) ==
    CASE p = "zoom" -> [account_id |-> client, client_id |-> client, client_secret |-> client]
      [] p = "twilio" -> [account_sid |-> client, auth_token |-> client, phone_number |-> "+1"]
      [] OTHER -> [email |-> client, app_password |-> client]

StoreLookup(r, client) ==
    /\ prov \in KeyProviders
    /\ Started(r)
    /\ \E existing \in QueryFirst(rows, prov, FALSE, FALSE) :
          req' = [req EXCEPT ![r] =
                    [pc |-> "connect_write", op |-> "store", client |-> client,
                     state |-> None, snap |-> existing]]
    /\ calls' = calls + 1
    /\ UNCHANGED <<rows, nextId, nextNonce, last, prev, consumed, prov, workers, out>>

StoreWrite(r) ==
    /\ req[r].pc = "connect_write"
    /\ req[r].op = "store"
    /\ LET c == req[r]
           config == encrypt_credentials(StoreCredentials(prov, c.client))
       IN IF c.snap # NoRow
            THEN IF ById(rows, c.snap.id) # {}
                   THEN /\ rows' = Flush(rows, c.snap,
                                         [config |-> config,
                                          is_active |-> c.snap.is_active,
                                          is_connected |-> TRUE])
                        /\ Finish(r, ConnectResponse(c, 200, c.snap.id))
                        /\ UNCHANGED nextId
                   ELSE /\ Finish(r, ConnectResponse(c, 500, None))
                        /\ UNCHANGED <<rows, nextId>>
            ELSE /\ rows' = rows \cup {NewRow(nextId, prov, config, TRUE)}
                 /\ nextId' = nextId + 1
                 /\ Finish(r, ConnectResponse(c, 200, nextId))
    /\ UNCHANGED <<nextNonce, calls, consumed, prov, workers, out>>

-----------------------------------------------------------------------------
(* OAuth completion: complete_google_calendar_oauth, complete_calendly_oauth,
   complete_zoho_bookings_oauth, complete_zoho_oauth *)

CompleteResponse(state, status, exchanged, id) ==
    [seq |-> 0, op |-> "complete", status |-> status, state |-> state,
     exchanged |-> exchanged, integration_id |-> id]

(* a handler that checks only that a state is stored *)
StateAccepted_Stored(stored, supplied) == ~Falsy(stored)

(* a handler that goes on to the exchange whatever state it is given *)
StateAccepted_Any(stored, supplied) == TRUE

(* The CSRF check: the handler goes on to the token exchange only with a
   stored oauth_state that equals the supplied one. *)
StateAccepted(stored, supplied) == ~Falsy(stored) /\ stored = supplied

(* the lookup of the active row, the decryption and the CSRF check *)
CompleteValidate(r, state) ==
    /\ prov \in OAuthProviders
    /\ Started(r)
    /\ calls' = calls + 1
    /\ \E integration \in QueryFirst(rows, prov, TRUE, FALSE) :
          IF integration = NoRow
            THEN Finish(r, CompleteResponse(state, 404, FALSE, None))
            ELSE IF ~DecryptOk(integration.config)
              THEN Finish(r, CompleteResponse(state, 500, FALSE, None))
              ELSE LET credentials == decrypt_credentials(integration.config)
                   IN IF StateAccepted(Get(credentials, "oauth_state"), state)
                        THEN /\ req' = [req EXCEPT ![r] =
                                          [pc |-> "complete_exchange", op |-> "complete",
                                           state |-> state, snap |-> integration,
                                           credentials |-> credentials]]
                             /\ UNCHANGED <<last, prev>>
                        ELSE Finish(r, CompleteResponse(state, 400, FALSE, None))
    /\ UNCHANGED <<rows, nextId, nextNonce, consumed, prov, workers, out>>

(* credentials after a token response: the tokens merged in, the transient
   OAuth fields removed *)
CompletedCredentials(p, credentials, refresh_token, user_info) ==
    LET withTokens ==
            [access_token |-> "tok0", refresh_token |-> refresh_token,
             token_expires_at |-> "ts", oauth_completed |-> TRUE,
             oauth_completed_at |-> "ts"] @@ credentials
        withDomain ==
            IF p = "zoho" THEN Put(withTokens, "zoho_api_domain", "zohoapis.in")
                          ELSE withTokens
        withUser ==
            IF p = "calendly" /\ user_info # None
              THEN [calendly_user_uri |-> "uri", calendly_user_name |-> "name",
                    calendly_scheduling_url |-> user_info] @@ withDomain
              ELSE withDomain
    IN Pop(Pop(Pop(withUser, "oauth_state"), "oauth_user_id"), "oauth_initiated_at")

(* the token exchange with the vendor, and on success the commit *)
CompleteExchange(r, outcome, refresh_token, user_info) ==
    /\ req[r].pc = "complete_exchange"
    /\ LET c == req[r]
       IN IF outcome = "ok"
            THEN IF ById(rows, c.snap.id) # {}
                   THEN /\ rows' = Flush(rows, c.snap,
                                [config |-> encrypt_credentials(
                                    CompletedCredentials(prov, c.credentials,
                                                         refresh_token, user_info)),
                                 is_active |-> c.snap.is_active,
                                 is_connected |-> TRUE])
                        /\ consumed' = consumed \cup {c.snap.id}
                        /\ Finish(r, CompleteResponse(c.state, 200, TRUE, c.snap.id))
                   ELSE /\ Finish(r, CompleteResponse(c.state, 500, TRUE, None))
                        /\ UNCHANGED <<rows, consumed>>
            ELSE /\ Finish(r, CompleteResponse(c.state,
                                 IF outcome = "network" THEN 500 ELSE 400, TRUE, None))
                 /\ UNCHANGED <<rows, consumed>>
    /\ UNCHANGED <<nextId, nextNonce, calls, prov, workers, out>>

-----------------------------------------------------------------------------
(* Generic management: update_integration, _delete_integration_impl *)

ManageResponse(op, status, organization_id, id) ==
    [seq |-> 0, op |-> op, status |-> status, organization_id |-> organization_id,
     integration_id |-> id]

GetIntegration(r, organization_id, id) ==
    /\ Started(r)
    /\ calls' = calls + 1
    /\ IF Owned(rows, id, organization_id) # {}
         THEN Finish(r, ManageResponse("get", 200, organization_id, id))
         ELSE Finish(r, ManageResponse("get", 404, organization_id, id))
    /\ UNCHANGED <<rows, nextId, nextNonce, consumed, prov, workers, out>>

UpdateIntegration(r, organization_id, id, is_active) ==
    /\ Started(r)
    /\ calls' = calls + 1
    /\ IF Owned(rows, id, organization_id) # {}
         THEN /\ rows' = {IF row.id = id THEN [row EXCEPT !.is_active = is_active]
                                         ELSE row : row \in rows}
              /\ Finish(r, ManageResponse("update", 200, organization_id, id))
         ELSE /\ Finish(r, ManageResponse("update", 404, organization_id, id))
              /\ UNCHANGED rows
    /\ UNCHANGED <<nextId, nextNonce, consumed, prov, workers, out>>

DeleteIntegration(r, organization_id, id) ==
    /\ Started(r)
    /\ calls' = calls + 1
    /\ IF Owned(rows, id, organization_id) # {}
         THEN /\ rows' = rows \ ById(rows, id)
              /\ consumed' = consumed \ {id}
              /\ Finish(r, ManageResponse("delete", 200, organization_id, id))
         ELSE /\ Finish(r, ManageResponse("delete", 404, organization_id, id))
              /\ UNCHANGED <<rows, consumed>>
    /\ UNCHANGED <<nextId, nextNonce, prov, workers, out>>

-----------------------------------------------------------------------------
(* Vendors.  During one request a vendor behaves in one way: whether it still
   accepts the access token the row holds, whether its token endpoint honours
   the refresh token, whether it accepts the token it then mints, whether its
   API serves an authorised request, and how it answers a body sent in an
   encoding other than the one its API documents. *)

Minted(held) ==
    CASE held = "tok0" -> "tok1"
      [] held = "tok1" -> "tok2"
      [] OTHER -> "tok3"

VendorBehaviours ==
    [held_ok : BOOLEAN, refresh : {"ok", "rejected"}, minted_ok : BOOLEAN,
     api : {"up", "error"}, other_encoding : {"same", "failure", "rejected"}]

(* one behaviour for each course a call can take: what a course never asks
   of the vendor is fixed *)
Courses(twoEncodings) ==
    {e \in VendorBehaviours :
        /\ e.held_ok => e.refresh = "rejected"
        /\ e.refresh = "rejected" => ~e.minted_ok
        /\ ~e.held_ok /\ ~e.minted_ok => e.api = "up"
        /\ ~(twoEncodings /\ e.minted_ok /\ e.api = "up") => e.other_encoding = "same"}

Accepted(e, held) ==
    (IF e.held_ok THEN {held} ELSE {})
        \cup (IF e.refresh = "ok" /\ e.minted_ok THEN {Minted(held)} ELSE {})

(* the encoding the vendor's API documents for the endpoint *)
DocumentedEncoding(endpoint) ==
    CASE endpoint = "zoho/appointment" -> "form"
      [] endpoint \in {"calendly/users/me", "calendly/event_types", "zoho/Leads"} -> "none"
      [] OTHER -> "json"

Resource(request) ==
    [kind |-> "resource", endpoint |-> request.endpoint, payload |-> request.payload]

Reply(e, held, request) ==
    IF request.token \notin Accepted(e, held)
      THEN [status |-> 401, body |-> [kind |-> "unauthorized"]]
      ELSE IF e.api = "error"
        THEN [status |-> 500, body |-> [kind |-> "server_error"]]
        ELSE IF request.encoding = DocumentedEncoding(request.endpoint)
                  \/ e.other_encoding = "same"
          THEN [status |-> 200, body |-> Resource(request)]
          ELSE IF e.other_encoding = "failure"
            THEN [status |-> 200, body |-> [kind |-> "failure"]]
            ELSE [status |-> 400, body |-> [kind |-> "bad_request"]]

(* refresh_access_token of a provider client: raise_for_status on the token
   endpoint's answer *)
RefreshGranted(e, credentials) ==
    e.refresh = "ok" /\ ~Falsy(Get(credentials, "refresh_token"))

-----------------------------------------------------------------------------
(* Provider clients.  A call is summed up by the request it was to make,
   whether it returned (ok) or raised, the body it returned, the status of
   every answer the API gave, the access token the client holds afterwards
   and the token a refresh minted, if one did. *)

(* the request, on 401 the refresh and one retry, raise_for_status, json() *)
ClientCall(e, credentials, access_token, first, retry) ==
    LET held == Get(credentials, "access_token")
        attempt == [first EXCEPT !.token = access_token]
        r1 == Reply(e, held, attempt)
        made == [endpoint |-> first.endpoint, payload |-> first.payload]
    IN IF r1.status = 401
         THEN IF RefreshGranted(e, credentials)
                THEN LET again == [retry EXCEPT !.token = Minted(held)]
                         r2 == Reply(e, held, again)
                     IN made @@ [ok |-> r2.status = 200, body |-> r2.body,
                                 statuses |-> <<401, r2.status>>,
                                 requests |-> <<attempt, again>>,
                                 access_token |-> Minted(held),
                                 refreshed |-> Minted(held)]
                ELSE made @@ [ok |-> FALSE, body |-> [kind |-> "refresh_failed"],
                              statuses |-> <<401>>, requests |-> <<attempt>>,
                              access_token |-> access_token, refreshed |-> None]
         ELSE made @@ [ok |-> r1.status = 200, body |-> r1.body,
                       statuses |-> <<r1.status>>, requests |-> <<attempt>>,
                       access_token |-> access_token, refreshed |-> None]

Request(endpoint, encoding, payload) ==
    [endpoint |-> endpoint, encoding |-> encoding, payload |-> payload, token |-> None]

GoogleCalendarClient_create_event(e, credentials, payload) ==
    ClientCall(e, credentials, Get(credentials, "access_token"),
               Request("google/events", "json", payload),
               Request("google/events", "json", payload))

ZohoBookingsClient_create_booking(e, credentials, payload) ==
    ClientCall(e, credentials, Get(credentials, "access_token"),
               Request("zoho/appointment", "form", payload),
               Request("zoho/appointment", "json", payload))

CalendlyClient_get_current_user(e, credentials, access_token) ==
    ClientCall(e, credentials, access_token,
               Request("calendly/users/me", "none", "me"),
               Request("calendly/users/me", "none", "me"))

CalendlyClient_create_scheduling_link(e, credentials, access_token, owner_uri) ==
    ClientCall(e, credentials, access_token,
               Request("calendly/scheduling_links", "json", owner_uri),
               Request("calendly/scheduling_links", "json", owner_uri))

(* create_calendly_link: without an event type the owner is looked up first;
   with one, create_scheduling_link looks the owner up itself *)
create_calendly_link(e, credentials) ==
    LET user == CalendlyClient_get_current_user(e, credentials,
                                                Get(credentials, "access_token"))
    IN IF ~user.ok
         THEN user
         ELSE LET link == CalendlyClient_create_scheduling_link(
                              e, credentials, user.access_token, user.body)
              IN [link EXCEPT !.statuses = user.statuses \o @,
                              !.refreshed = IF user.refreshed # None
                                              THEN user.refreshed ELSE @]

(* ZoomClient: the account-credentials token grant, then the meeting *)
ZoomBehaviours == {"ok", "token_rejected", "create_failed"}

create_zoom_meeting(z, credentials, payload) ==
    IF {"account_id", "client_id", "client_secret"} \subseteq DOMAIN credentials /\ z = "ok"
      THEN [ok |-> TRUE,
            body |-> Resource(Request("zoom/meetings", "json", payload))]
      ELSE [ok |-> FALSE, body |-> [kind |-> "error"]]

NoCall ==
    [endpoint |-> "none", payload |-> None, ok |-> FALSE, body |-> [kind |-> "none"],
     statuses |-> <<>>, requests |-> <<>>, access_token |-> None, refreshed |-> None]

(* GmailClient.send_email over SMTP *)
GmailBehaviours == {"sent", "smtp_error"}
send_gmail_email(m) == m = "sent"

-----------------------------------------------------------------------------
(* Unified booking: book_meeting *)

MaxEventTypes == 2      \* event types in a Calendly account's listing

MeetingProviders == <<"zoom", "google_calendar", "calendly", "zoho_bookings">>

DisplayName(p) ==
    CASE p = "zoom" -> "Zoom"
      [] p = "google_calendar" -> "Google Calendar"
      [] p = "calendly" -> "Calendly"
      [] OTHER -> "Zoho Bookings"

BookingRequests ==
    [fields : {"ok", "missing_field", "bad_date"}, duration_minutes : {30}]

(* an event type of the listing; its scheduling_url is its own, here the
   number of its place in the collection *)
EventTypes == [active : BOOLEAN, duration : {30, 60}, scheduling_url : 1..MaxEventTypes]
EventTypeLists ==
    {collection \in UNION {[1..n -> EventTypes] : n \in 0..MaxEventTypes} :
        \A i \in DOMAIN collection : collection[i].scheduling_url = i}
NoEventType == [active |-> FALSE, duration |-> 0, scheduling_url |-> 0]

(* a selection that takes the first type of the listing as it comes *)
SelectEventType_FirstListed(event_types, i, duration_minutes, selected) ==
    IF event_types = <<>> THEN selected ELSE event_types[1]

(* the loop over the listing: the first active type of the requested
   duration, else the first active type *)
RECURSIVE SelectEventType(_, _, _, _)
SelectEventType(event_types, i, duration_minutes, selected) ==
    IF i > Len(event_types)
      THEN selected
      ELSE LET et == event_types[i]
           IN IF et.active
                THEN IF et.duration = duration_minutes
                       THEN et
                       ELSE IF selected = NoEventType
                              THEN SelectEventType(event_types, i + 1, duration_minutes, et)
                              ELSE SelectEventType(event_types, i + 1, duration_minutes, selected)
                ELSE SelectEventType(event_types, i + 1, duration_minutes, selected)

NoDetail == [kind |-> "none"]

(* What a provider step did: whether the provider's row was found
   (attempted), whether its capability returned what was asked of it (ok),
   whether the handler listed it (used) with what detail, whether it recorded
   an error for it, and the call its client made. *)
Skipped ==
    [attempted |-> FALSE, ok |-> FALSE, used |-> FALSE, detail |-> NoDetail,
     error |-> FALSE, call |-> NoCall]

Raised(recorded, call) ==
    [attempted |-> TRUE, ok |-> FALSE, used |-> FALSE, detail |-> NoDetail,
     error |-> recorded, call |-> call]

Returned(detail, call) ==
    [attempted |-> TRUE, ok |-> TRUE, used |-> TRUE, detail |-> detail,
     error |-> FALSE, call |-> call]

(* lines 135-176: a failure is logged *)
ZoomStep(row, z, request) ==
    IF row = NoRow
      THEN Skipped
      ELSE IF ~DecryptOk(row.config)
        THEN Raised(FALSE, NoCall)
        ELSE LET call == create_zoom_meeting(z, decrypt_credentials(row.config), request)
             IN IF call.ok THEN Returned(call.body, NoCall) ELSE Raised(FALSE, NoCall)

(* lines 181-224: a failure is logged *)
GoogleStep(row, e, request) ==
    IF row = NoRow
      THEN Skipped
      ELSE IF ~DecryptOk(row.config)
        THEN Raised(FALSE, NoCall)
        ELSE LET credentials == decrypt_credentials(row.config)
                 call == GoogleCalendarClient_create_event(e, credentials, request)
             IN IF call.ok THEN Returned(call.body, call) ELSE Raised(FALSE, call)

(* lines 229-320: the permanent link if the row has one, else the listing of
   event types; what the listing raises is logged, what is raised before it
   is recorded *)
CalendlyStep(row, e, event_types, request) ==
    IF row = NoRow
      THEN Skipped
      ELSE IF ~DecryptOk(row.config)
        THEN Raised(TRUE, NoCall)
        ELSE
          LET credentials == decrypt_credentials(row.config)
              url == Get(credentials, "calendly_scheduling_url")
              user == CalendlyClient_get_current_user(
                          e, credentials, Get(credentials, "access_token"))
              listing == Reply(e, Get(credentials, "access_token"),
                               [Request("calendly/event_types", "none", user.body)
                                   EXCEPT !.token = user.access_token])
              selected == SelectEventType(event_types, 1, request.duration_minutes,
                                          NoEventType)
          IN IF ~Falsy(url)
               THEN Returned([kind |-> "permanent_link", link |-> url], NoCall)
               ELSE IF ~user.ok \/ listing.status # 200 \/ selected = NoEventType
                 THEN Raised(FALSE, user)
                 ELSE Returned([kind |-> "event_type_link", event_type |-> selected],
                               user)

(* a step that sends the appointment whatever the row has configured *)
ZohoStep_Unchecked(row, e, request) ==
    IF row = NoRow
      THEN Skipped
      ELSE LET call == ZohoBookingsClient_create_booking(
                           e, decrypt_credentials(row.config), request)
           IN IF call.ok THEN Returned(call.body, call) ELSE Raised(TRUE, call)

(* lines 325-389: a failure is recorded *)
ZohoStep(row, e, request) ==
    IF row = NoRow
      THEN Skipped
      ELSE IF ~DecryptOk(row.config)
        THEN Raised(TRUE, NoCall)
        ELSE
          LET credentials == decrypt_credentials(row.config)
              call == ZohoBookingsClient_create_booking(e, credentials, request)
          IN IF Falsy(Get(credentials, "service_id")) \/ Falsy(Get(credentials, "staff_id"))
               THEN Raised(TRUE, NoCall)
               ELSE IF call.ok THEN Returned(call.body, call) ELSE Raised(TRUE, call)

(* lines 403-525: "sent", or why not *)
EmailStep(row, m) ==
    IF row = NoRow
      THEN "not_connected"
      ELSE IF ~DecryptOk(row.config)
        THEN "decrypt_failed"
        ELSE IF send_gmail_email(m) THEN "sent" ELSE "smtp_error"

ProviderNames == {"Zoom", "Google Calendar", "Calendly", "Zoho Bookings"}

Success(steps, used, email) ==
    [status |-> 200, success |-> TRUE,
     integrations_used |-> [i \in 1..Len(used) |-> DisplayName(used[i])],
     details |-> [p \in {used[i] : i \in 1..Len(used)} |-> steps[p].detail],
     integration_errors |->
         {MeetingProviders[i] : i \in {j \in 1..Len(MeetingProviders) :
                                          steps[MeetingProviders[j]].error}},
     email_sent |-> email = "sent"]

NotConnected ==
    [status |-> 404, success |-> FALSE,
     detail |-> [text |-> "No meeting integrations are connected",
                 names |-> ProviderNames]]

Failure(status, text) ==
    [status |-> status, success |-> FALSE, detail |-> [text |-> text, names |-> {}]]

(* a handler that lets a provider's exception reach its outer handler *)
BookResponse_Abort(steps, email) ==
    LET used == SelectSeq(MeetingProviders, LAMBDA p : steps[p].used)
    IN IF \E i \in 1..Len(MeetingProviders) :
             steps[MeetingProviders[i]].attempted /\ ~steps[MeetingProviders[i]].ok
         THEN Failure(500, "Failed to book meeting")
         ELSE IF used = <<>> THEN NotConnected ELSE Success(steps, used, email)

(* a handler without the final validation *)
BookResponse_NoValidation(steps, email) ==
    Success(steps, SelectSeq(MeetingProviders, LAMBDA p : steps[p].used), email)

(* a handler that lets a failure of the confirmation email reach its outer
   handler *)
BookResponse_EmailFatal(steps, email) ==
    LET used == SelectSeq(MeetingProviders, LAMBDA p : steps[p].used)
    IN IF used = <<>>
         THEN NotConnected
         ELSE IF email \in {"decrypt_failed", "smtp_error"}
           THEN Failure(500, "Failed to book meeting")
           ELSE Success(steps, used, email)

(* lines 394-398 and 528-539: no provider used is the 404; else the response
   lists the providers used, their details, the recorded errors and
   email_sent *)
BookResponse(steps, email) ==
    LET used == SelectSeq(MeetingProviders, LAMBDA p : steps[p].used)
    IN IF used = <<>> THEN NotConnected ELSE Success(steps, used, email)

(* the book_meeting tool of the MCP server, mcp_server.py lines 371-420: the
   text the agent is given for the endpoint's response *)
book_meeting_text(response) ==
    IF response.status = 200
      THEN IF response.success
             THEN [kind |-> "booked", names |-> {response.integrations_used[i] :
                                                   i \in DOMAIN response.integrations_used},
                   confirmation_sent |-> TRUE]
             ELSE [kind |-> "error", names |-> {}, confirmation_sent |-> FALSE]
      ELSE IF response.status = 404
        THEN [kind |-> "not_connected", names |-> ProviderNames,
              confirmation_sent |-> FALSE]
        ELSE IF response.status = 400
          THEN [kind |-> "validation_error", names |-> {}, confirmation_sent |-> FALSE]
          ELSE [kind |-> "error", names |-> {}, confirmation_sent |-> FALSE]

-----------------------------------------------------------------------------
(* The capability requests.  Each is served from its lookup to its response
   while no other request changes the rows it reads. *)

MaxCapCalls == 1        \* capability requests served in one behaviour

Healthy ==
    [held_ok |-> TRUE, refresh |-> "rejected", minted_ok |-> FALSE, api |-> "up",
     other_encoding |-> "same"]

(* The vendor behaviours a request can meet: a vendor that is not called,
   because its provider has no row the request can use, takes no part. *)
Usable(p, needConnected, keys) ==
    \E row \in Matches(rows, p, TRUE, needConnected) :
        /\ DecryptOk(row.config)
        /\ \A k \in keys : ~Falsy(Get(decrypt_credentials(row.config), k))

ZoomInputs(needConnected) ==
    IF Usable("zoom", needConnected, {}) THEN ZoomBehaviours ELSE {"ok"}

CourseInputs(p, needConnected, keys, twoEncodings) ==
    IF Usable(p, needConnected, keys) THEN Courses(twoEncodings) ELSE {Healthy}

(* book_meeting lists the event types only of a row without a permanent link *)
ListingInputs ==
    IF Usable("calendly", TRUE, {}) /\ ~Usable("calendly", TRUE, {"calendly_scheduling_url"})
      THEN Courses(FALSE) ELSE {Healthy}

EventTypeInputs(e) ==
    IF (e.held_ok \/ e.minted_ok) /\ e.api = "up"
            /\ Usable("calendly", TRUE, {})
            /\ ~Usable("calendly", TRUE, {"calendly_scheduling_url"})
      THEN EventTypeLists ELSE {<<>>}

GmailInputs ==
    IF Usable("gmail", TRUE, {}) THEN GmailBehaviours ELSE {"sent"}

Payload(request, notes) ==
    [customer |-> "customer", duration_minutes |-> request.duration_minutes,
     notes |-> notes]

NoSteps == [p \in {} |-> Skipped]

(* book_meeting, lines 57-548 *)
BookMeeting(request, z, ge, ce, event_types, ze, m) ==
    /\ calls < MaxCapCalls
    /\ calls' = calls + 1
    /\ \E zoom \in QueryFirst(rows, "zoom", TRUE, TRUE),
          google \in QueryFirst(rows, "google_calendar", TRUE, TRUE),
          calendly \in QueryFirst(rows, "calendly", TRUE, TRUE),
          zoho \in QueryFirst(rows, "zoho_bookings", TRUE, TRUE),
          gmail \in QueryFirst(rows, "gmail", TRUE, TRUE) :
          LET payload == Payload(request, {})
              steps == [zoom |-> ZoomStep(zoom, z, payload),
                        google_calendar |-> GoogleStep(google, ge, payload),
                        calendly |-> CalendlyStep(calendly, ce, event_types, request),
                        zoho_bookings |-> ZohoStep(zoho, ze, payload)]
              email == EmailStep(gmail, m)
              response == BookResponse(steps, email)
          IN out' =
               IF request.fields = "missing_field"
                 THEN [op |-> "book_meeting", request |-> request, steps |-> NoSteps,
                       event_types |-> <<>>, email |-> "not_attempted",
                       response |-> Failure(400, "Missing required fields")]
                 ELSE IF request.fields = "bad_date"
                   THEN [op |-> "book_meeting", request |-> request, steps |-> NoSteps,
                         event_types |-> <<>>, email |-> "not_attempted",
                         response |-> Failure(500, "Failed to book meeting")]
                   ELSE [op |-> "book_meeting", request |-> request, steps |-> steps,
                         event_types |-> event_types,
                         email |-> IF \E i \in 1..Len(MeetingProviders) :
                                          steps[MeetingProviders[i]].used
                                     THEN email ELSE "not_attempted",
                         response |-> response]
    /\ UNCHANGED <<rows, nextId, nextNonce, req, last, prev, consumed, prov, workers>>

(* create_event_endpoint, google_calendar.py lines 428-506 *)
GoogleCreateEvent(request, e) ==
    /\ calls < MaxCapCalls
    /\ calls' = calls + 1
    /\ \E row \in QueryFirst(rows, "google_calendar", TRUE, TRUE) :
          LET step == IF row = NoRow THEN Skipped
                      ELSE IF ~DecryptOk(row.config) THEN Raised(FALSE, NoCall)
                      ELSE LET call == GoogleCalendarClient_create_event(
                                           e, decrypt_credentials(row.config),
                                           Payload(request, {}))
                           IN IF call.ok THEN Returned(call.body, call)
                                         ELSE Raised(FALSE, call)
          IN out' = [op |-> "google_create_event", request |-> request,
                     steps |-> [p \in {"google_calendar"} |-> step],
                     email |-> "not_attempted",
                     response |->
                        IF ~step.attempted
                          THEN Failure(404, "Google Calendar not connected.")
                          ELSE IF step.ok
                            THEN [status |-> 200, success |-> TRUE, event |-> step.detail]
                            ELSE Failure(500, "Failed to create event")]
    /\ UNCHANGED <<rows, nextId, nextNonce, req, last, prev, consumed, prov, workers>>

(* create_scheduling_link_endpoint, calendly.py lines 523-583 *)
CalendlyCreateLink(request, e) ==
    /\ calls < MaxCapCalls
    /\ calls' = calls + 1
    /\ \E row \in QueryFirst(rows, "calendly", TRUE, TRUE) :
          LET step == IF row = NoRow THEN Skipped
                      ELSE IF ~DecryptOk(row.config) THEN Raised(FALSE, NoCall)
                      ELSE LET call == create_calendly_link(
                                           e, decrypt_credentials(row.config))
                           IN IF call.ok THEN Returned(call.body, call)
                                         ELSE Raised(FALSE, call)
          IN out' = [op |-> "calendly_create_link", request |-> request,
                     steps |-> [p \in {"calendly"} |-> step],
                     email |-> "not_attempted",
                     response |->
                        IF ~step.attempted
                          THEN Failure(404, "Calendly not connected.")
                          ELSE IF step.ok
                            THEN [status |-> 200, success |-> TRUE, link |-> step.detail]
                            ELSE Failure(500, "Failed to create scheduling link")]
    /\ UNCHANGED <<rows, nextId, nextNonce, req, last, prev, consumed, prov, workers>>

(* the credentials with a refreshed token merged in *)
WithToken(credentials, access_token) ==
    Put(Put(credentials, "access_token", access_token), "token_expires_at", "ts")

(* save_zoho_bookings_config *)
SavedConfig(config, service_id, staff_id) ==
    encrypt_credentials(
        Put(Put(decrypt_credentials(config), "service_id", service_id),
            "staff_id", staff_id))

(* create_booking, zoho_bookings.py lines 505-799: the Zoom, Google Calendar
   and Calendly links go into the booking's notes; the refreshed token is
   written back once the booking call has returned *)
ZohoCreateBooking(request, z, ge, ce, ze) ==
    /\ calls < MaxCapCalls
    /\ calls' = calls + 1
    /\ \E row \in QueryFirst(rows, "zoho_bookings", TRUE, TRUE),
          zoom \in QueryFirst(rows, "zoom", TRUE, FALSE),
          google \in QueryFirst(rows, "google_calendar", TRUE, TRUE),
          calendly \in QueryFirst(rows, "calendly", TRUE, TRUE) :
          IF row = NoRow
            THEN /\ out' = [op |-> "zoho_create_booking", request |-> request,
                            steps |-> NoSteps, email |-> "not_attempted",
                            response |-> Failure(404, "Zoho Bookings not connected")]
                 /\ UNCHANGED rows
            ELSE IF ~DecryptOk(row.config)
              THEN /\ out' = [op |-> "zoho_create_booking", request |-> request,
                              steps |-> NoSteps, email |-> "not_attempted",
                              response |-> Failure(500, "Failed to create booking")]
                   /\ UNCHANGED rows
              ELSE
                LET credentials == decrypt_credentials(row.config)
                    zoomStep == ZoomStep(zoom, z, Payload(request, {}))
                    googleStep == GoogleStep(google, ge, Payload(request, {}))
                    calendlyStep ==
                        IF calendly = NoRow THEN Skipped
                        ELSE IF ~DecryptOk(calendly.config) THEN Raised(FALSE, NoCall)
                        ELSE LET link == create_calendly_link(
                                             ce, decrypt_credentials(calendly.config))
                             IN IF link.ok THEN Returned(link.body, link)
                                           ELSE Raised(FALSE, link)
                    notes == {p \in {"zoom", "google_calendar", "calendly"} :
                                 CASE p = "zoom" -> zoomStep.ok
                                   [] p = "google_calendar" -> googleStep.ok
                                   [] OTHER -> calendlyStep.ok}
                    call == ZohoBookingsClient_create_booking(
                                ze, credentials, Payload(request, notes))
                    steps == [zoom |-> zoomStep, google_calendar |-> googleStep,
                              calendly |-> calendlyStep,
                              zoho_bookings |-> IF call.ok THEN Returned(call.body, call)
                                                           ELSE Raised(FALSE, call)]
                IN IF Falsy(Get(credentials, "service_id"))
                        \/ Falsy(Get(credentials, "staff_id"))
                     THEN /\ out' = [op |-> "zoho_create_booking", request |-> request,
                                     steps |-> NoSteps, email |-> "not_attempted",
                                     response |-> Failure(400, "not configured")]
                          /\ UNCHANGED rows
                     ELSE /\ out' = [op |-> "zoho_create_booking", request |-> request,
                                     steps |-> steps, email |-> "not_attempted",
                                     response |->
                                        IF call.ok
                                          THEN [status |-> 200, success |-> TRUE,
                                                booking |-> call.body]
                                          ELSE Failure(
                                                 IF call.statuses = <<401>> THEN 400
                                                 ELSE call.statuses[Len(call.statuses)],
                                                 "Failed to create booking")]
                          /\ rows' =
                               IF call.ok /\ call.access_token
                                                # Get(credentials, "access_token")
                                 THEN Flush(rows, row,
                                            [config |-> encrypt_credentials(
                                                 WithToken(credentials, call.access_token)),
                                             is_active |-> row.is_active,
                                             is_connected |-> row.is_connected])
                                 ELSE rows
    /\ UNCHANGED <<nextId, nextNonce, req, last, prev, consumed, prov, workers>>

(* import_leads_from_zoho_button, zoho.py lines 386-612, for one lead id:
   refresh_zoho_token writes the refreshed token back before the retry.
   The Lead table the handler fills is not part of the model. *)
ZohoImportLeads(request, e) ==
    /\ calls < MaxCapCalls
    /\ calls' = calls + 1
    /\ \E row \in FindByZohoOrg(rows, ProviderExtras("zoho").zoho_organization_id) :
          IF row = NoRow
            THEN /\ out' = [op |-> "zoho_import_leads", request |-> request,
                            steps |-> NoSteps, email |-> "not_attempted",
                            response |-> [status |-> 200, success |-> FALSE,
                                          successful |-> 0, failed |-> 1]]
                 /\ UNCHANGED rows
            ELSE
              LET credentials == decrypt_credentials(row.config)
                  call == ClientCall(e, credentials, Get(credentials, "access_token"),
                                     Request("zoho/Leads", "none", "lead"),
                                     Request("zoho/Leads", "none", "lead"))
              IN IF Falsy(Get(credentials, "access_token"))
                   THEN /\ out' = [op |-> "zoho_import_leads", request |-> request,
                                   steps |-> NoSteps, email |-> "not_attempted",
                                   response |-> [status |-> 200, success |-> FALSE,
                                                 successful |-> 0, failed |-> 1]]
                        /\ UNCHANGED rows
                   ELSE /\ out' = [op |-> "zoho_import_leads", request |-> request,
                                   steps |-> [p \in {"zoho"} |->
                                                IF call.ok THEN Returned(call.body, call)
                                                           ELSE Raised(TRUE, call)],
                                   email |-> "not_attempted",
                                   response |-> [status |-> 200, success |-> TRUE,
                                                 successful |-> IF call.ok THEN 1 ELSE 0,
                                                 failed |-> IF call.ok THEN 0 ELSE 1]]
                        /\ rows' =
                             IF call.refreshed # None
                               THEN Flush(rows, row,
                                          [config |-> encrypt_credentials(
                                               WithToken(credentials, call.refreshed)),
                                           is_active |-> row.is_active,
                                           is_connected |-> row.is_connected])
                               ELSE rows
    /\ UNCHANGED <<nextId, nextNonce, req, last, prev, consumed, prov, workers>>

-----------------------------------------------------------------------------
(* The rows a capability request can find, each as the registry handlers
   leave it *)

AuthorizedConfig(p, user_info) ==
    encrypt_credentials(
        CompletedCredentials(p, ConnectCredentials(p, "credA", token_urlsafe(1)),
                             "rt0", user_info))

(* a blob written before ENCRYPTION_KEY was replaced *)
UnderOldKey(config) == [config EXCEPT !.key = "key0"]

RowStates(p) ==
    CASE p = "zoom" ->
           LET row == NewRow(1, p, encrypt_credentials(StoreCredentials(p, "credA")), TRUE)
           IN {{}, {row}, {[row EXCEPT !.is_active = FALSE]}}
      [] p = "google_calendar" ->
           LET pending == NewRow(2, p, encrypt_credentials(
                                 ConnectCredentials(p, "credA", token_urlsafe(1))), FALSE)
           IN {{}, {pending},
               {[pending EXCEPT !.config = AuthorizedConfig(p, None),
                                !.is_connected = TRUE]}}
      [] p = "calendly" ->
           LET row == NewRow(3, p, AuthorizedConfig(p, "url"), TRUE)
           IN {{}, {row}, {[row EXCEPT !.config = AuthorizedConfig(p, None)]},
               {[row EXCEPT !.config = UnderOldKey(@)]}}
      [] p = "zoho_bookings" ->
           LET row == NewRow(4, p, AuthorizedConfig(p, None), TRUE)
           IN {{}, {row}, {[row EXCEPT !.config = SavedConfig(@, "service", "staff")]}}
      [] p = "gmail" ->
           LET row == NewRow(5, p, encrypt_credentials(StoreCredentials(p, "credA")), TRUE)
           IN {{}, {row}, {[row EXCEPT !.config = UnderOldKey(@)]}}
      [] OTHER ->
           LET row == NewRow(6, p, AuthorizedConfig(p, None), TRUE)
           IN {{}, {row}}

InitCap ==
    /\ \E zoom \in RowStates("zoom"), google \in RowStates("google_calendar"),
          calendly \in RowStates("calendly"), zoho \in RowStates("zoho_bookings"),
          gmail \in RowStates("gmail"), crm \in RowStates("zoho") :
          rows = zoom \cup google \cup calendly \cup zoho \cup gmail \cup crm
    /\ nextId = 7
    /\ nextNonce = 1
    /\ calls = 0
    /\ req = [r \in Slots |-> Idle]
    /\ last = NoResp
    /\ prev = NoResp
    /\ consumed = {}
    /\ prov = None
    /\ workers = 1
    /\ out = NoOut

(* the requests that can still arrive *)
Arriving(requests) == IF calls < MaxCapCalls THEN requests ELSE {}

ValidRequests == {request \in BookingRequests : request.fields = "ok"}

NextCap ==
    \/ \E request \in Arriving(ValidRequests), z \in ZoomInputs(TRUE),
          ge \in CourseInputs("google_calendar", TRUE, {}, FALSE),
          ce \in ListingInputs,
          ze \in CourseInputs("zoho_bookings", TRUE, {"service_id", "staff_id"}, TRUE),
          m \in GmailInputs :
          \E event_types \in EventTypeInputs(ce) :
              BookMeeting(request, z, ge, ce, event_types, ze, m)
    \/ \E request \in Arriving(BookingRequests \ ValidRequests) :
          BookMeeting(request, "ok", Healthy, Healthy, <<>>, Healthy, "sent")
    \/ \E request \in Arriving(ValidRequests),
          e \in CourseInputs("google_calendar", TRUE, {}, FALSE) :
          GoogleCreateEvent(request, e)
    \/ \E request \in Arriving(ValidRequests),
          e \in CourseInputs("calendly", TRUE, {}, FALSE) :
          CalendlyCreateLink(request, e)
    \/ \E request \in Arriving(ValidRequests), z \in ZoomInputs(FALSE),
          ge \in CourseInputs("google_calendar", TRUE, {}, FALSE),
          ce \in CourseInputs("calendly", TRUE, {}, FALSE),
          ze \in CourseInputs("zoho_bookings", TRUE, {"service_id", "staff_id"}, TRUE) :
          ZohoCreateBooking(request, z, ge, ce, ze)
    \/ \E request \in Arriving(ValidRequests),
          e \in CourseInputs("zoho", FALSE, {"access_token"}, FALSE) :
          ZohoImportLeads(request, e)

SpecCap == InitCap /\ [][NextCap]_vars

-----------------------------------------------------------------------------
(* Handlers that write a row they loaded earlier in the request *)

SaveResponse(status, id) ==
    [seq |-> 0, op |-> "save", status |-> status, integration_id |-> id]

(* save_zoho_bookings_config: the lookup of the active row and the decryption *)
SaveConfigLookup(r, service_id, staff_id) ==
    /\ prov = "zoho_bookings"
    /\ Started(r)
    /\ calls' = calls + 1
    /\ \E integration \in QueryFirst(rows, prov, TRUE, FALSE) :
          IF integration = NoRow
            THEN Finish(r, SaveResponse(404, None))
            ELSE IF ~DecryptOk(integration.config)
              THEN Finish(r, SaveResponse(500, None))
              ELSE /\ req' = [req EXCEPT ![r] =
                                [pc |-> "save_write", op |-> "save", snap |-> integration,
                                 service_id |-> service_id, staff_id |-> staff_id]]
                   /\ UNCHANGED <<last, prev>>
    /\ UNCHANGED <<rows, nextId, nextNonce, consumed, prov, workers, out>>

(* save_zoho_bookings_config: the credentials with the two ids, and the commit *)
SaveConfigWrite(r) ==
    /\ req[r].pc = "save_write"
    /\ LET c == req[r]
       IN IF ById(rows, c.snap.id) # {}
            THEN /\ rows' = Flush(rows, c.snap,
                                  [config |-> SavedConfig(c.snap.config, c.service_id,
                                                          c.staff_id),
                                   is_active |-> c.snap.is_active,
                                   is_connected |-> c.snap.is_connected])
                 /\ Finish(r, SaveResponse(200, c.snap.id))
            ELSE /\ Finish(r, SaveResponse(500, None))
                 /\ UNCHANGED rows
    /\ UNCHANGED <<nextId, nextNonce, calls, consumed, prov, workers, out>>

CapabilityResponse(status, id, refreshed) ==
    [seq |-> 0, op |-> "capability", status |-> status, integration_id |-> id,
     refreshed |-> refreshed]

(* The capability requests of the Zoho providers, which write a refreshed
   token back: create_booking (zoho_bookings.py) and
   import_leads_from_zoho_button (zoho.py), up to the request to the vendor. *)
CapabilityLookup(r, zoho_organization_id) ==
    /\ prov \in {"zoho", "zoho_bookings"}
    /\ Started(r)
    /\ calls' = calls + 1
    /\ \E integration \in IF prov = "zoho"
                            THEN FindByZohoOrg(rows, zoho_organization_id)
                            ELSE QueryFirst(rows, prov, TRUE, TRUE) :
          IF integration = NoRow
            THEN Finish(r, CapabilityResponse(IF prov = "zoho" THEN 200 ELSE 404,
                                              None, None))
            ELSE IF ~DecryptOk(integration.config)
              THEN Finish(r, CapabilityResponse(500, None, None))
              ELSE
                LET credentials == decrypt_credentials(integration.config)
                    unusable ==
                        IF prov = "zoho"
                          THEN Falsy(Get(credentials, "access_token"))
                          ELSE Falsy(Get(credentials, "service_id"))
                                  \/ Falsy(Get(credentials, "staff_id"))
                IN IF unusable
                     THEN Finish(r, CapabilityResponse(IF prov = "zoho" THEN 200 ELSE 400,
                                                       None, None))
                     ELSE /\ req' = [req EXCEPT ![r] =
                                       [pc |-> "capability_call", op |-> "capability",
                                        snap |-> integration, credentials |-> credentials]]
                          /\ UNCHANGED <<last, prev>>
    /\ UNCHANGED <<rows, nextId, nextNonce, consumed, prov, workers, out>>

(* the request to the vendor with the refresh on 401, and the commit of the
   refreshed token: by refresh_zoho_token as soon as it is minted, by
   create_booking once the booking call has returned *)
CapabilityCall(r, e) ==
    /\ req[r].pc = "capability_call"
    /\ LET c == req[r]
           held == Get(c.credentials, "access_token")
           call == IF prov = "zoho"
                     THEN ClientCall(e, c.credentials, held,
                                     Request("zoho/Leads", "none", "lead"),
                                     Request("zoho/Leads", "none", "lead"))
                     ELSE ZohoBookingsClient_create_booking(e, c.credentials, "booking")
           persisted == IF prov = "zoho" THEN call.refreshed # None
                                         ELSE call.ok /\ call.access_token # held
           status == IF prov = "zoho" \/ call.ok THEN 200
                     ELSE IF call.statuses = <<401>> THEN 400
                     ELSE call.statuses[Len(call.statuses)]
       IN IF persisted
            THEN IF ById(rows, c.snap.id) # {}
                   THEN /\ rows' = Flush(rows, c.snap,
                                [config |-> encrypt_credentials(
                                     WithToken(c.credentials, call.access_token)),
                                 is_active |-> c.snap.is_active,
                                 is_connected |-> c.snap.is_connected])
                        /\ Finish(r, CapabilityResponse(status, c.snap.id, call.refreshed))
                   ELSE /\ Finish(r, CapabilityResponse(500, None, call.refreshed))
                        /\ UNCHANGED rows
            ELSE /\ Finish(r, CapabilityResponse(status, c.snap.id, call.refreshed))
                 /\ UNCHANGED rows
    /\ UNCHANGED <<nextId, nextNonce, calls, consumed, prov, workers, out>>

(* The lookups of the capability endpoints.  "direct" is the provider's own
   endpoint (send-sms, send-email, create-zoom-meeting, create-event,
   create-link, create-booking), the other two are the steps of book_meeting
   and of Zoho Bookings create_booking for another provider. *)
Endpoints == {"direct", "book_meeting", "zoho_create_booking"}

Serves(endpoint, p) ==
    CASE endpoint = "direct" -> p # "zoho"
      [] endpoint = "book_meeting" ->
            p \in {"zoom", "google_calendar", "calendly", "zoho_bookings", "gmail"}
      [] OTHER -> p \in {"zoom", "google_calendar", "calendly"}

(* a lookup that filters on is_active alone *)
LookupFilter_ActiveOnly(p, endpoint) == FALSE

(* whether the endpoint's query filters on is_connected as well as on
   is_active *)
LookupFilter(p, endpoint) == endpoint = "book_meeting" \/ p \notin KeyProviders

LookupResponse(endpoint, integration) ==
    IF integration = NoRow
      THEN [seq |-> 0, op |-> "lookup", endpoint |-> endpoint, status |-> 404,
            integration_id |-> None, is_active |-> FALSE, is_connected |-> FALSE]
      ELSE [seq |-> 0, op |-> "lookup", endpoint |-> endpoint, status |-> 200,
            integration_id |-> integration.id, is_active |-> integration.is_active,
            is_connected |-> integration.is_connected]

(* the endpoint finds the provider's row and decrypts its credentials for the
   call to the vendor; nothing is written *)
CredentialsLookup(r, endpoint) ==
    /\ Serves(endpoint, prov)
    /\ Started(r)
    /\ calls' = calls + 1
    /\ \E integration \in QueryFirst(rows, prov, TRUE, LookupFilter(prov, endpoint)) :
          Finish(r, LookupResponse(endpoint, integration))
    /\ UNCHANGED <<rows, nextId, nextNonce, consumed, prov, workers, out>>

-----------------------------------------------------------------------------
(* The registry specifications *)

Init ==
    /\ rows = {}
    /\ nextId = 1
    /\ nextNonce = 0
    /\ calls = 0
    /\ req = [r \in Slots |-> Idle]
    /\ last = NoResp
    /\ prev = NoResp
    /\ consumed = {}
    /\ prov \in Providers
    /\ workers = MaxReq
    /\ out = NoOut

SuppliedStates == {ForgedState} \cup {token_urlsafe(n) : n \in 1..MaxConnects}
RowIds == 1..(MaxCalls + 1)

Next ==
    \E r \in Slots :
        \/ \E client \in Clients : ConnectLookup(r, client)
        \/ ConnectWrite(r)
        \/ \E client \in Clients : StoreLookup(r, client)
        \/ StoreWrite(r)
        \/ \E state \in SuppliedStates : CompleteValidate(r, state)
        \/ \E outcome \in TokenOutcomes, refresh_token \in {"", "rt0"},
              user_info \in {None, "", "url"} :
              CompleteExchange(r, outcome, refresh_token, user_info)
        \/ \E id \in RowIds, is_active \in BOOLEAN :
              UpdateIntegration(r, Org, id, is_active)
        \/ \E id \in RowIds : DeleteIntegration(r, Org, id)
        \/ \E service_id \in {"service"}, staff_id \in {None, "staff"} :
              SaveConfigLookup(r, service_id, staff_id)
        \/ SaveConfigWrite(r)
        \/ \E zoho_organization_id \in ZohoOrgIds :
              CapabilityLookup(r, zoho_organization_id)
        \/ \E endpoint \in Endpoints : CredentialsLookup(r, endpoint)
        \/ \E e \in Courses(prov = "zoho_bookings") : CapabilityCall(r, e)

(* Worker processes share the table: requests interleave at every database
   and vendor round trip. *)
Spec == Init /\ [][Next]_vars

(* Requests arrive one after another: one is finished before the next starts. *)
InitSeq ==
    /\ rows = {}
    /\ nextId = 1
    /\ nextNonce = 0
    /\ calls = 0
    /\ req = [r \in Slots |-> Idle]
    /\ last = NoResp
    /\ prev = NoResp
    /\ consumed = {}
    /\ prov \in Providers
    /\ workers = 1
    /\ out = NoOut

SpecSeq == InitSeq /\ [][Next]_vars

-----------------------------------------------------------------------------
(* Properties of the registry *)

Candidates == Matches(rows, prov, TRUE, FALSE)

(* the oauth_state values stored in the rows a complete call can resolve to *)
StoredStates ==
    {Get(decrypt_credentials(row.config), "oauth_state") : row \in Candidates} \ {None}

(* a step in which a complete call carrying `state` is taken up *)
CompleteStarts(state) ==
    /\ calls' = calls + 1
    /\ \/ \E r \in Slots : /\ req[r].pc = "idle"
                            /\ req'[r].pc = "complete_exchange"
                            /\ req'[r].state = state
       \/ /\ req' = req
          /\ last'.seq # last.seq
          /\ last'.op = "complete"
          /\ last'.state = state

(* the call is answered at once with a client error: nothing is sent to the
   vendor and the table is as it was *)
CompleteRejected ==
    /\ req' = req
    /\ last'.op = "complete"
    /\ last'.status \in {400, 404}
    /\ ~last'.exchanged
    /\ rows' = rows

(* C2: a complete call whose state is not the oauth_state stored in a row it
   can resolve to (a different value, or none stored) is rejected; the
   rejected call sends no token exchange and leaves the rows unchanged. *)
C2_StateMismatchRejected ==
    [][\A state \in SuppliedStates :
          CompleteStarts(state) /\ state \notin StoredStates => CompleteRejected]_vars

(* a complete was refused with 400 and without an exchange while a row of the
   triple stores another oauth_state *)
C2_Witness ==
    /\ last.op = "complete"
    /\ last.status = 400
    /\ ~last.exchanged
    /\ StoredStates # {}
    /\ last.state \notin StoredStates
    /\ \A row \in Candidates : ~row.is_connected

(* C3: once a complete has succeeded on a row, every complete call that starts
   later and can only resolve to such rows fails, until a connect writes the
   row again. *)
C3_StateConsumed ==
    [][\A state \in SuppliedStates :
          /\ CompleteStarts(state)
          /\ Candidates # {}
          /\ \A row \in Candidates : row.id \in consumed
          => CompleteRejected /\ last'.status = 400]_vars

SecretKeys ==
    {"client_id", "client_secret", "account_id", "account_sid", "auth_token",
     "email", "app_password"}

HoldsCredentialsOf(config, response) ==
    LET c == decrypt_credentials(config)
    IN /\ \A k \in SecretKeys \cap DOMAIN c : c[k] = response.client
       /\ SecretKeys \cap DOMAIN c # {}
       /\ response.op = "connect" => Get(c, "oauth_state") = response.state

ConnectedTwice ==
    /\ prev.op \in {"connect", "store"} /\ prev.status = 200
    /\ last.op = prev.op /\ last.status = 200

(* C9: after two connect (or credential-store) calls in a row for the triple
   there is exactly one row of the triple, the second call returned the id the
   first returned, and the row's config holds the second call's credentials. *)
C9_ConnectIdempotent ==
    ConnectedTwice =>
        LET triple == Matches(rows, prov, FALSE, FALSE)
        IN /\ Cardinality(triple) = 1
           /\ last.integration_id = prev.integration_id
           /\ \A row \in triple : /\ row.id = last.integration_id
                                  /\ HoldsCredentialsOf(row.config, last)

(* the second call brought other credentials than the first *)
C9_Witness ==
    /\ ConnectedTwice
    /\ prev.client # last.client
    /\ \E row \in rows : row.id = last.integration_id /\ HoldsCredentialsOf(row.config, last)

(* C10: at most one row per (organization, type, provider) in every reachable
   state, whatever the interleaving of connect and credential-store calls. *)
C10_AtMostOneRow == Cardinality(Matches(rows, prov, FALSE, FALSE)) <= 1

-----------------------------------------------------------------------------
(* Properties of the capability requests *)

BookProviders == {MeetingProviders[i] : i \in 1..Len(MeetingProviders)}

(* a book-meeting request that passed the field checks has been served *)
Booked == out.op = "book_meeting" /\ out.request.fields = "ok"

Connected(p) == Matches(rows, p, TRUE, TRUE) # {}
Succeeded == {p \in BookProviders : out.steps[p].ok}
Failed == {p \in BookProviders : out.steps[p].attempted /\ ~out.steps[p].ok}

UsedExactly(providers) ==
    /\ Len(out.response.integrations_used) = Cardinality(providers)
    /\ {out.response.integrations_used[i] : i \in DOMAIN out.response.integrations_used}
          = {DisplayName(p) : p \in providers}

(* C1: in book-meeting every connected provider is attempted whatever
   happened to the others, and once a provider's call has succeeded the
   result is a success whose integrations_used holds exactly the providers
   whose call succeeded, however many of the others failed. *)
C1_FanOutIndependent ==
    Booked =>
        /\ \A p \in BookProviders : Connected(p) => out.steps[p].attempted
        /\ out.response.status \in {200, 404}
        /\ Succeeded # {} =>
              /\ out.response.status = 200
              /\ out.response.success
              /\ UsedExactly(Succeeded)

(* three providers connected, one failed, the other two listed *)
C1_Witness ==
    /\ Booked
    /\ Cardinality({p \in BookProviders : Connected(p)}) >= 3
    /\ Cardinality(Failed) = 1
    /\ Cardinality(Succeeded) >= 2
    /\ out.response.status = 200
    /\ UsedExactly(Succeeded)

FirstAttemptUnauthorized(call) ==
    /\ call.statuses # <<>>
    /\ call.statuses[1] = 401
    /\ call.statuses[Len(call.statuses)] = 200

(* what the call returns when the held token is accepted at once *)
DirectResult(call) ==
    [kind |-> "resource", endpoint |-> call.endpoint, payload |-> call.payload]

(* C4: a client call whose first attempt got 401, whose refresh succeeded and
   whose retry got a success status returns what the call returns when the
   first attempt succeeds. *)
C4_RefreshTransparent ==
    out.op # "none" =>
        \A p \in DOMAIN out.steps :
            FirstAttemptUnauthorized(out.steps[p].call) =>
                /\ out.steps[p].call.ok
                /\ out.steps[p].call.body = DirectResult(out.steps[p].call)

StoredAccessTokens(p) ==
    {Get(decrypt_credentials(row.config), "access_token") :
        row \in {r \in Matches(rows, p, TRUE, FALSE) : DecryptOk(r.config)}}

(* C5: once a capability request has returned, the access_token stored for
   every provider whose client refreshed its token during the request is the
   refreshed token. *)
C5_RefreshedTokenStored ==
    out.op # "none" =>
        \A p \in DOMAIN out.steps :
            out.steps[p].call.refreshed # None =>
                StoredAccessTokens(p) = {out.steps[p].call.refreshed}

(* C6: book-meeting without an active, connected meeting integration fails
   with the 404 whose message names providers to connect, and the tool's text
   for it does too; no success is returned. *)
C6_NoProvider404 ==
    Booked /\ (\A p \in BookProviders : ~Connected(p)) =>
        /\ out.response.status = 404
        /\ ~out.response.success
        /\ out.response.detail.names \cap ProviderNames # {}
        /\ book_meeting_text(out.response).kind = "not_connected"
        /\ book_meeting_text(out.response).names \cap ProviderNames # {}

(* rows exist, none of them active and connected *)
C6_Witness ==
    /\ Booked
    /\ \A p \in BookProviders : ~Connected(p)
    /\ \E p \in BookProviders : Matches(rows, p, FALSE, FALSE) # {}
    /\ out.response.status = 404
    /\ book_meeting_text(out.response).kind = "not_connected"

(* C7: a successful book-meeting response has an integration_errors entry for
   every connected provider whose call failed. *)
C7_FailuresRecorded ==
    Booked /\ out.response.status = 200 =>
        \A p \in Failed : p \in out.response.integration_errors

EmailFailed == out.email \in {"not_connected", "decrypt_failed", "smtp_error"}

(* C8: once a provider has succeeded, a confirmation email that is not sent
   (Gmail not connected, its credentials undecryptable, SMTP error) gives
   email_sent = false and leaves the result a success with the providers used
   and their details as the provider steps produced them. *)
C8_EmailFailureKeepsSuccess ==
    Booked /\ Succeeded # {} /\ EmailFailed =>
        /\ out.response.status = 200
        /\ out.response.success
        /\ ~out.response.email_sent
        /\ UsedExactly(Succeeded)
        /\ out.response.details = [p \in Succeeded |-> out.steps[p].detail]

(* the SMTP server refused the mail of a booking two providers served *)
C8_Witness ==
    /\ Booked
    /\ out.email = "smtp_error"
    /\ Cardinality(Succeeded) >= 2
    /\ out.response.status = 200
    /\ ~out.response.email_sent
    /\ out.response.details = [p \in Succeeded |-> out.steps[p].detail]

-----------------------------------------------------------------------------
(* Properties of the registry, continued *)

Credentials(row) == decrypt_credentials(row.config)

(* C11: every row with is_connected = true has a config that is not NULL and
   decrypts, under the service's key, to a map holding the provider's client
   credentials, whatever connect, store, complete, save-config, refresh,
   update and delete calls have run and however they interleaved. *)
C11_ConnectedHasCredentials ==
    \A row \in rows :
        row.is_connected =>
            /\ row.config # NoConfig
            /\ DecryptOk(row.config)
            /\ SecretKeys \cap DOMAIN Credentials(row) # {}

(* a connected row that a complete, a save-config and a token refresh have
   written in turn *)
C11_Witness ==
    /\ last.op = "capability"
    /\ last.refreshed # None
    /\ \E row \in rows :
          /\ row.is_connected
          /\ DecryptOk(row.config)
          /\ Get(Credentials(row), "access_token") = last.refreshed
          /\ Get(Credentials(row), "service_id") = "service"

(* a step in which slot r sends the authorization code to the vendor's token
   endpoint: the handler is left waiting for the answer *)
ExchangeSent(r) == req[r].pc # "complete_exchange" /\ req'[r].pc = "complete_exchange"

(* C12: a complete call sends the authorization code to the token endpoint
   only in a step that has compared the supplied state with the oauth_state
   stored in the row and found them equal; every response that reports an
   exchange comes from a call that had passed that comparison. *)
C12_StateCheckedBeforeExchange ==
    [][/\ \A r \in Slots :
             ExchangeSent(r) =>
                 \E row \in Candidates :
                     /\ ~Falsy(Get(Credentials(row), "oauth_state"))
                     /\ req'[r].state = Get(Credentials(row), "oauth_state")
       /\ (last'.seq # last.seq /\ last'.op = "complete" /\ last'.exchanged) =>
             \E r \in Slots : /\ req[r].pc = "complete_exchange"
                              /\ req'[r].pc = "idle"
                              /\ last'.state = req[r].state
                              /\ req[r].state = Get(req[r].credentials, "oauth_state")]_vars

(* the state matched, the code went to the vendor, and the vendor refused it *)
C12_Witness ==
    /\ last.op = "complete"
    /\ last.exchanged
    /\ last.status = 400
    /\ prev.op = "connect"
    /\ prev.state = last.state

-----------------------------------------------------------------------------
(* Provider clients against a vendor that answers as it likes.  The vendor's
   answers to the HTTP requests of one capability call, the token endpoint's
   included, are a script: the i-th request sent gets the i-th answer. *)

MaxAnswers == 6     \* HTTP requests one capability call can send

Statuses == {200, 401, 500}
Scripts == [1..MaxAnswers -> Statuses]

(* One client method from the i-th request on: the request, on 401 the
   refresh (raise_for_status on the token endpoint's answer) and one retry,
   then raise_for_status.  events lists what was sent, next is the index of
   the request a following method would send. *)
ScriptedCall(script, i) ==
    IF script[i] = 401
      THEN IF script[i + 1] = 200
             THEN [ok |-> script[i + 2] = 200,
                   events |-> <<"request", "refresh", "retry">>,
                   statuses |-> <<401, script[i + 2]>>, next |-> i + 3]
             ELSE [ok |-> FALSE, events |-> <<"request", "refresh">>,
                   statuses |-> <<401>>, next |-> i + 2]
      ELSE [ok |-> script[i] = 200, events |-> <<"request">>,
            statuses |-> <<script[i]>>, next |-> i + 1]

(* two client methods one after the other on the same client object *)
Then(first, second) ==
    [ok |-> second.ok, events |-> first.events \o second.events,
     statuses |-> first.statuses \o second.statuses, next |-> second.next]

(* GoogleCalendarClient.create_event, ZohoBookingsClient.create_booking *)
ScriptedSingle(script) == ScriptedCall(script, 1)

(* create_calendly_link: get_current_user, then create_scheduling_link *)
ScriptedCalendlyLink(script) ==
    LET user == ScriptedCall(script, 1)
    IN IF user.ok THEN Then(user, ScriptedCall(script, user.next)) ELSE user

(* the Calendly step of book_meeting: get_current_user, then the listing of
   the event types, which is sent once *)
ScriptedCalendlyListing(script) ==
    LET user == ScriptedCall(script, 1)
        listing == [ok |-> script[user.next] = 200, events |-> <<"request">>,
                    statuses |-> <<script[user.next]>>, next |-> user.next + 1]
    IN IF user.ok THEN Then(user, listing) ELSE user

ClientRun(capability, script, result) ==
    /\ out = NoOut
    /\ out' = [op |-> "client_call", capability |-> capability, script |-> script,
               result |-> result]
    /\ UNCHANGED <<rows, nextId, nextNonce, calls, req, last, prev, consumed, prov, workers>>

InitVendor ==
    /\ rows = {}
    /\ nextId = 1
    /\ nextNonce = 0
    /\ calls = 0
    /\ req = [r \in Slots |-> Idle]
    /\ last = NoResp
    /\ prev = NoResp
    /\ consumed = {}
    /\ prov = None
    /\ workers = 1
    /\ out = NoOut

NextVendor ==
    \/ \E script \in Scripts :
          ClientRun("google_create_event", script, ScriptedSingle(script))
    \/ \E script \in Scripts :
          ClientRun("zoho_create_booking", script, ScriptedSingle(script))
    \/ \E script \in Scripts :
          ClientRun("calendly_create_link", script, ScriptedCalendlyLink(script))
    \/ \E script \in Scripts :
          ClientRun("book_meeting_calendly", script, ScriptedCalendlyListing(script))

SpecVendor == InitVendor /\ [][NextVendor]_vars

Count(events, kind) == Cardinality({i \in DOMAIN events : events[i] = kind})

(* C13: one capability call attempts at most one token refresh and at most
   one retry, whatever the vendor answers, and a 401 on the retry ends the
   call with a failure. *)
C13_RefreshAtMostOnce ==
    out.op = "client_call" =>
        /\ Count(out.result.events, "refresh") <= 1
        /\ Count(out.result.events, "retry") <= 1
        /\ (\E i \in DOMAIN out.result.statuses :
               i > 1 /\ out.result.statuses[i] = 401 /\ out.result.statuses[i - 1] = 401)
              => ~out.result.ok

-----------------------------------------------------------------------------
(* Properties of the capability requests, continued *)

(* the provider a single-provider endpoint serves *)
Primary ==
    CASE out.op = "google_create_event" -> "google_calendar"
      [] out.op = "calendly_create_link" -> "calendly"
      [] out.op = "zoho_create_booking" -> "zoho_bookings"
      [] OTHER -> "zoho"

SingleProvider ==
    /\ out.op \in {"google_create_event", "calendly_create_link", "zoho_create_booking",
                   "zoho_import_leads"}
    /\ Primary \in DOMAIN out.steps

(* the provider's call got 401 and the refresh that followed failed *)
RefreshFailed == out.steps[Primary].call.body.kind = "refresh_failed"

(* C14: a single-provider capability call whose request got 401 and whose
   token refresh then failed is answered with a not-connected error (401 or
   404), never with a 500 or another generic failure. *)
C14_RefreshFailureNotConnected ==
    SingleProvider /\ RefreshFailed =>
        /\ ~out.response.success
        /\ out.response.status \in {401, 404}

-----------------------------------------------------------------------------
(* Properties of the registry, continued *)

(* C15: the row whose credentials a capability endpoint uses (send-sms,
   send-email, create-zoom-meeting, the provider and email steps of
   book-meeting, the steps of Zoho Bookings create-booking) was active and
   connected when the endpoint looked it up. *)
C15_UsesActiveConnectedRow ==
    last.op = "lookup" /\ last.status = 200 => last.is_active /\ last.is_connected

(* an API-key provider's own endpoint used the row after it had been
   deactivated and activated again *)
C15_Witness ==
    /\ prov \in KeyProviders
    /\ last.op = "lookup"
    /\ last.endpoint = "direct"
    /\ last.status = 200
    /\ prev.op = "update"
    /\ prev.integration_id = last.integration_id

-----------------------------------------------------------------------------
(* The Tool Bridge (backend/mcp-server) and the authentication of the
   endpoints it calls.  A channel session stores one value, a JWT or an
   organization id; every tool call of the session turns it into the headers
   of its downstream requests. *)

ToolNames == {"list_available_integrations", "send_sms", "send_email",
              "create_zoom_meeting", "book_meeting", "book_zoho_meeting"}
UnknownTool == "unknown_tool"       \* a name the catalogue does not hold

(* bearer tokens a caller can hold: a JWT is three segments joined by dots *)
ValidToken == "header.payload.signature"
ExpiredToken == "header.expired.signature"
Tokens == {ValidToken, ExpiredToken}

(* sse_endpoint: the token of a Bearer authorization header, else the
   organization id header, else nothing *)
sse_endpoint(authorization, x_organization_id) ==
    IF authorization # None THEN authorization ELSE x_organization_id

(* "." in auth_value: a JWT has dots, an organization id (a UUID) has none *)
HasDot(auth_value) == auth_value \in Tokens

NoHeaders == [authorization |-> None, x_organization_id |-> None]

get_auth_headers(auth_value) ==
    IF auth_value = None
      THEN NoHeaders
      ELSE IF HasDot(auth_value)
             THEN [authorization |-> auth_value, x_organization_id |-> None]
             ELSE [authorization |-> None, x_organization_id |-> auth_value]

(* security.py *)
Rejected(status) == [status |-> status, organization_id |-> None, type |-> None]

decode_token(token) ==
    IF token = ValidToken
      THEN [status |-> 200, organization_id |-> Org, type |-> "access"]
      ELSE Rejected(401)

(* HTTPBearer refuses a request without an Authorization header before the
   dependency runs, with the status its FastAPI version uses *)
BearerRefusals == {401, 403}

get_current_user(headers, refusal) ==
    IF headers.authorization = None
      THEN Rejected(refusal)
      ELSE decode_token(headers.authorization)

get_current_user_flexible(headers) ==
    IF headers.authorization # None
      THEN decode_token(headers.authorization)
      ELSE IF headers.x_organization_id # None
             THEN [status |-> 200, organization_id |-> headers.x_organization_id,
                   type |-> "service"]
             ELSE Rejected(401)

(* the dependency each endpoint declares for current_user *)
Authenticate(endpoint, headers, refusal) ==
    IF endpoint = "book-meeting"
      THEN get_current_user(headers, refusal)
      ELSE get_current_user_flexible(headers)

(* What the downstream handler would answer an authenticated request, and
   what the transport can do instead: an arbitrary choice. *)
Answer(kind, status, body) == [kind |-> kind, status |-> status, body |-> body]

(* 200 bodies with success = true; book-meeting's carries email_sent too *)
Successes == {"success", "success_email_not_sent"}

HandlerOutcomes ==
    {Answer("response", 200, "success"), Answer("response", 200, "failure"),
     Answer("response", 200, "success_email_not_sent"),
     Answer("response", 200, "not_json"), Answer("response", 400, "detail"),
     Answer("response", 400, "not_json"), Answer("response", 404, "detail"),
     Answer("response", 500, "detail"), Answer("response", 503, "detail"),
     Answer("timeout", 0, None), Answer("request_error", 0, None)}

(* client.get / client.post: the reply to one downstream request; scope is
   the organization the endpoint resolved the headers to *)
Send(endpoint, headers, refusal, answer) ==
    LET current_user == Authenticate(endpoint, headers, refusal)
    IN IF answer.kind # "response"
         THEN [endpoint |-> endpoint, kind |-> answer.kind, status |-> 0,
               body |-> None, scope |-> None]
         ELSE IF current_user.status # 200
                THEN [endpoint |-> endpoint, kind |-> "response",
                      status |-> current_user.status, body |-> "detail", scope |-> None]
                ELSE [endpoint |-> endpoint, kind |-> "response",
                      status |-> answer.status, body |-> answer.body,
                      scope |-> current_user.organization_id]

TextContent(text, sent) == [kind |-> "text", text |-> text, sent |-> sent]
ToolRaised(exception) == [kind |-> "raise", text |-> exception, sent |-> << >>]

EndpointOf(name) ==
    CASE name = "list_available_integrations" -> "list"
      [] name = "send_sms" -> "send-sms"
      [] name = "send_email" -> "send-email"
      [] name = "create_zoom_meeting" -> "create-zoom-meeting"
      [] OTHER -> "book-meeting"

(* the body of a 200 reply, read by a tool with a single downstream request *)
Translate200(name, body) ==
    CASE body = "not_json" ->
           IF name = "book_meeting" THEN "An unexpected error occurred" ELSE "Error: exception"
      [] name = "list_available_integrations" ->
           IF body \in Successes THEN "Available integrations" ELSE "No integrations connected"
      [] name \in {"send_sms", "send_email"} -> "sent successfully"
      [] name = "book_meeting" ->
           IF body \in Successes
             THEN "Meeting booked successfully. Confirmation details have been sent to the customer."
             ELSE "message"
      [] OTHER -> IF body \in Successes THEN "created successfully" ELSE "message"

(* the error texts of the book_meeting branch *)
TranslateBookingError(reply) ==
    CASE reply.kind = "timeout" -> "taking too long to respond"
      [] reply.kind = "request_error" -> "Unable to connect"
      [] reply.status = 404 -> "No meeting integrations are currently connected"
      [] reply.status = 400 ->
           IF reply.body = "not_json" THEN "Invalid booking request"
                                      ELSE "Booking validation error"
      [] reply.status = 500 -> "internal error"
      [] OTHER -> "Failed to book meeting (status)"

(* list_available_integrations, send_sms, send_email, create_zoom_meeting,
   book_meeting: the parameter check, the headers, one request *)
SingleRequestTool(name, arguments, auth_value, refusal, answer) ==
    LET headers == get_auth_headers(auth_value)
        reply == Send(EndpointOf(name), headers, refusal, answer)
    IN IF name # "list_available_integrations" /\ arguments = "missing"
         THEN TextContent("Error: Missing required parameters", << >>)
         ELSE IF headers = NoHeaders
                THEN TextContent("Error: Authentication not available", << >>)
                ELSE IF reply.kind = "response" /\ reply.status = 200
                       THEN TextContent(Translate200(name, reply.body), <<reply>>)
                       ELSE IF name = "book_meeting"
                              THEN TextContent(TranslateBookingError(reply), <<reply>>)
                              ELSE IF reply.kind = "response"
                                     THEN TextContent("Failed: status", <<reply>>)
                                     ELSE TextContent("Error: exception", <<reply>>)

(* book_zoho_meeting: the list, the row's detail, then the booking *)
BookZohoMeeting(arguments, auth_value, refusal, answers) ==
    LET headers == get_auth_headers(auth_value)
        listing == Send("list", headers, refusal, answers[1])
        detail == Send("get", headers, refusal, answers[2])
        reply == Send("zoho-bookings/create-booking", headers, refusal, answers[3])
    IN IF arguments = "missing"
         THEN TextContent("Error: Missing required parameters", << >>)
         ELSE IF headers = NoHeaders
           THEN TextContent("Error: Authentication not available", << >>)
         ELSE IF listing.kind # "response"
           THEN TextContent("Error: exception", <<listing>>)
         ELSE IF listing.status # 200
           THEN TextContent("Error: Failed to fetch integration settings", <<listing>>)
         ELSE IF listing.body = "not_json"
           THEN TextContent("Error: exception", <<listing>>)
         ELSE IF listing.body \notin Successes
           THEN TextContent("Error: Zoho Bookings integration is not connected", <<listing>>)
         ELSE IF detail.kind # "response"
           THEN TextContent("Error: exception", <<listing, detail>>)
         ELSE IF detail.status # 200
           THEN TextContent("Error: Failed to fetch Zoho Bookings configuration",
                            <<listing, detail>>)
         ELSE IF reply.kind # "response"
           THEN TextContent("Error: exception", <<listing, detail, reply>>)
         ELSE IF reply.status # 200
           THEN TextContent("Failed to create Zoho booking: status", <<listing, detail, reply>>)
         ELSE IF reply.body = "not_json"
           THEN TextContent("Error: exception", <<listing, detail, reply>>)
         ELSE IF reply.body \in Successes
           THEN TextContent("Appointment booked successfully", <<listing, detail, reply>>)
           ELSE TextContent("message", <<listing, detail, reply>>)

handle_call_tool(name, arguments, auth_value, refusal, answers) ==
    IF name = "book_zoho_meeting"
      THEN BookZohoMeeting(arguments, auth_value, refusal, answers)
      ELSE IF name \in ToolNames
             THEN SingleRequestTool(name, arguments, auth_value, refusal, answers[1])
             ELSE ToolRaised("ValueError: Unknown tool")

(* one tool call of the session *)
CallTool(name, arguments, refusal, answers) ==
    /\ out.op \in {"session", "tool_call"}
    /\ out' = [op |-> "tool_call", session |-> out.session, name |-> name,
               arguments |-> arguments,
               result |-> handle_call_tool(name, arguments, out.session, refusal, answers)]
    /\ UNCHANGED <<rows, nextId, nextNonce, calls, req, last, prev, consumed, prov, workers>>

(* the session is opened by a GET /sse with a Bearer token, with an
   organization id header, with both, or with neither *)
InitTool ==
    /\ rows = {}
    /\ nextId = 1
    /\ nextNonce = 0
    /\ calls = 0
    /\ req = [r \in Slots |-> Idle]
    /\ last = NoResp
    /\ prev = NoResp
    /\ consumed = {}
    /\ prov = None
    /\ workers = 1
    /\ \E authorization \in Tokens \cup {None}, x_organization_id \in {Org, None} :
          out = [op |-> "session",
                 session |-> sse_endpoint(authorization, x_organization_id)]

ArgumentMaps == {"complete", "missing"}    \* are the required arguments all there

NextTool ==
    \/ \E name \in ToolNames \ {"book_zoho_meeting"}, arguments \in ArgumentMaps,
          refusal \in BearerRefusals, answer \in HandlerOutcomes :
          CallTool(name, arguments, refusal, <<answer>>)
    \/ \E arguments \in ArgumentMaps, refusal \in BearerRefusals,
          answers \in [1..3 -> HandlerOutcomes] :
          CallTool("book_zoho_meeting", arguments, refusal, answers)
    \/ \E arguments \in ArgumentMaps, refusal \in BearerRefusals :
          CallTool(UnknownTool, arguments, refusal, << >>)

SpecTool == InitTool /\ [][NextTool]_vars

(* C16: whatever the tool name and the arguments, with or without an
   authentication context, and whatever the downstream services answer or
   the network does, handle_call_tool returns a text result and raises no
   exception. *)
C16_AlwaysTextResult ==
    out.op = "tool_call" => out.result.kind = "text"

(* C17: a downstream request of a tool call, sent on a session opened with
   a valid bearer token or with an organization id alone, is authenticated
   by the endpoint that receives it and resolved to the organization of the
   session, whichever of the two forms the session holds. *)
C17_BothFormsAuthenticated ==
    out.op = "tool_call" /\ out.session \in {ValidToken, Org} =>
        \A i \in DOMAIN out.result.sent :
            out.result.sent[i].kind = "response" => out.result.sent[i].scope = Org

-----------------------------------------------------------------------------
(* Properties of the registry: the connected flag *)

ConnectedIds(rs) == {row.id : row \in {x \in rs : x.is_connected}}

(* this step answers a request of the given operation *)
Answered(op) == last'.seq # last.seq /\ last'.op = op

(* C18: for an OAuth provider, a connect that succeeds leaves its row with
   is_connected = false; a row's is_connected turns true only in the step
   of a complete whose state matched the stored one and whose token exchange
   returned an access token; a capability call that refreshes the token
   leaves every row's is_connected as it was. *)
C18_ConnectedOnlyByComplete ==
    [][(prov \in OAuthProviders) =>
         /\ (Answered("connect") /\ last'.status = 200) =>
                (last'.integration_id \notin ConnectedIds(rows'))
         /\ (ConnectedIds(rows') \ ConnectedIds(rows) # {}) =>
                (/\ Answered("complete")
                 /\ last'.status = 200
                 /\ last'.exchanged
                 /\ ConnectedIds(rows') \ ConnectedIds(rows) = {last'.integration_id}
                 /\ \E r \in Slots :
                       /\ req[r].pc = "complete_exchange"
                       /\ req'[r].pc = "idle"
                       /\ req[r].state = Get(req[r].credentials, "oauth_state"))
         /\ Answered("capability") => (ConnectedIds(rows') = ConnectedIds(rows))
      ]_vars

-----------------------------------------------------------------------------
(* Properties of the capability requests: validation *)

(* C19: a book-meeting request with a required field missing, or with a
   booking_date / booking_time that does not parse as YYYY-MM-DD HH:MM, is
   answered with a client error (4xx), and no provider row has been looked
   up, no provider called and no email sent for it. *)
C19_InvalidRequestRejected ==
    out.op = "book_meeting" /\ out.request.fields # "ok" =>
        /\ ~out.response.success
        /\ out.response.status \in 400..499
        /\ out.steps = NoSteps
        /\ out.email = "not_attempted"

-----------------------------------------------------------------------------
(* Two organizations on one table.  The provider handlers serve requests of
   Org; the row of OrgB for the same provider is already in the table,
   pending or connected, and both organizations call get, update and delete
   with any id. *)

OrgProviders == {"zoho", "zoho_bookings", "zoom"}

(* OrgB's Zoho CRM credentials name its own Zoho organization *)
OtherCredentials(p, credentials) ==
    IF p = "zoho" THEN Put(credentials, "zoho_organization_id", "zorgB")
                  ELSE credentials

OtherRow(p, credentials, connected) ==
    [NewRow(1, p, encrypt_credentials(OtherCredentials(p, credentials)), connected)
        EXCEPT !.organization_id = OrgB]

(* the states OrgB's own connect, complete and store leave its row in *)
OtherRows(p) ==
    IF p \in OAuthProviders
      THEN {{OtherRow(p, decrypt_credentials(AuthorizedConfig(p, None)), TRUE)},
            {OtherRow(p, ConnectCredentials(p, "credB", token_urlsafe(0)), FALSE)}}
      ELSE {{OtherRow(p, StoreCredentials(p, "credB"), TRUE)}}

(* the state after the request of OrgB that wrote its row *)
InitOrgs ==
    /\ prov \in OrgProviders
    /\ rows \in OtherRows(prov)
    /\ nextId = 2
    /\ nextNonce = 0
    /\ calls = 1
    /\ req = [r \in Slots |-> Idle]
    /\ last = NoResp
    /\ prev = NoResp
    /\ consumed = {}
    /\ workers = MaxReq
    /\ out = NoOut

NextOrgs ==
    \/ Next
    \/ \E r \in Slots, organization_id \in Orgs, id \in RowIds :
          GetIntegration(r, organization_id, id)
    \/ \E r \in Slots, id \in RowIds, is_active \in BOOLEAN :
          UpdateIntegration(r, OrgB, id, is_active)
    \/ \E r \in Slots, id \in RowIds : DeleteIntegration(r, OrgB, id)

SpecOrgs == InitOrgs /\ [][NextOrgs]_vars

OwnedBy(rs, organization_id) == {row \in rs : row.organization_id = organization_id}

(* the organization a response went to *)
CallerOf(response) ==
    IF response.op \in {"get", "update", "delete"} THEN response.organization_id ELSE Org

(* C20: get, update and delete called by one organization with the id of a
   row another organization owns answer 404; the rows of an organization
   change only in a step that answers a request of that organization; and
   a row a handler answers 200 for, or holds loaded while it works on a
   request, is a row of the organization that sent the request. *)
C20_OrganizationsIsolated ==
    [][/\ \A o \in Orgs :
            (OwnedBy(rows', o) # OwnedBy(rows, o)) =>
                (last'.seq # last.seq /\ CallerOf(last') = o)
       /\ (last'.seq # last.seq /\ last'.op \in {"get", "update", "delete"}
              /\ \E row \in ById(rows, last'.integration_id) :
                    row.organization_id # last'.organization_id) =>
              (last'.status = 404)
       /\ (last'.seq # last.seq /\ last'.status = 200) =>
              (\A row \in rows \cup rows' :
                    (ToString(row.id) = ToString(last'.integration_id)) =>
                        (row.organization_id = CallerOf(last')))
       /\ \A r \in Slots :
              ("snap" \in DOMAIN req'[r] /\ req'[r].snap # NoRow) =>
                  (req'[r].snap.organization_id = Org)
      ]_vars

-----------------------------------------------------------------------------
(* Properties of the capability requests: Zoho Bookings configuration *)

(* the connected Zoho Bookings row has no service_id or no staff_id *)
Unconfigured ==
    \E row \in Matches(rows, "zoho_bookings", TRUE, TRUE) :
        /\ DecryptOk(row.config)
        /\ \/ Falsy(Get(decrypt_credentials(row.config), "service_id"))
           \/ Falsy(Get(decrypt_credentials(row.config), "staff_id"))

(* C21: with Zoho Bookings connected and service_id or staff_id missing,
   create-booking fails with the 400 'not configured' error, which is
   neither the not-connected nor the failed-call error, and sends nothing
   to any vendor; in book-meeting the Zoho Bookings step sends no request,
   its failure is recorded, every other connected provider is attempted and
   a success lists Zoho Bookings among the errors. *)
C21_NotConfigured ==
    /\ (out.op = "zoho_create_booking" /\ Unconfigured) =>
          /\ ~out.response.success
          /\ out.response.status = 400
          /\ out.response.detail.text = "not configured"
          /\ out.steps = NoSteps
    /\ (Booked /\ Unconfigured) =>
          /\ out.steps["zoho_bookings"].attempted
          /\ ~out.steps["zoho_bookings"].ok
          /\ out.steps["zoho_bookings"].error
          /\ out.steps["zoho_bookings"].call = NoCall
          /\ \A p \in BookProviders : Connected(p) => out.steps[p].attempted
          /\ (Succeeded # {}) => (out.response.status = 200)
          /\ (out.response.status = 200) =>
                ("zoho_bookings" \in out.response.integration_errors)

(* book-meeting with Zoho Bookings unconfigured and another provider used *)
C21_Witness ==
    /\ Booked
    /\ Unconfigured
    /\ Succeeded # {}
    /\ out.response.status = 200
    /\ "zoho_bookings" \in out.response.integration_errors

-----------------------------------------------------------------------------
(* EncryptionService on arbitrary credential maps.  encrypt_credentials is
   json.dumps, Fernet and base64; decrypt_credentials undoes the three.  A
   Python value is a record of its type t and its content (s, the text of a
   scalar; items, the elements of a list or tuple; members, the key and
   value pairs of a dict); a JSON document is a record of its JSON type and
   its content.
   The registry's credential maps have string keys and string or boolean
   values, on which the two conversions change nothing. *)

Scalar(t, s) == [t |-> t, s |-> s, items |-> <<>>, members |-> {}]
Items(t, items) == [t |-> t, s |-> "", items |-> items, members |-> {}]
Members(t, members) == [t |-> t, s |-> "", items |-> <<>>, members |-> members]
Member(value, k) == (CHOOSE member \in value.members : member[1] = k)[2]
MemberKeys(value) == {member[1] : member \in value.members}

PyScalars == {Scalar("str", "x"), Scalar("int", "7"), Scalar("bool", "True"),
              Scalar("none", "None")}
PyKeys == {Scalar("str", "a"), Scalar("str", "b"), Scalar("int", "1")}

MaxItems == 1     \* elements of a list or tuple, keys of a nested dict
MaxKeys == 2      \* keys of a credential map

PyDicts(keys, values, n) ==
    {Members("dict", {<<k, f[k]>> : k \in DOMAIN f}) :
        f \in UNION {[d -> values] : d \in {x \in SUBSET keys : Cardinality(x) <= n}}}

PyValues ==
    PyScalars
      \cup {Items(kind, items) :
               kind \in {"list", "tuple"},
               items \in UNION {[1..n -> PyScalars] : n \in 0..MaxItems}}
      \cup PyDicts(PyKeys, PyScalars, MaxItems)

CredentialMaps == PyDicts(PyKeys, PyValues, MaxKeys)

(* the text json.dumps writes for a dict key: a str as it is, an int as its
   digits, a bool as true / false, None as null *)
KeyText(k) ==
    CASE k.t = "bool" -> IF k.s = "True" THEN "true" ELSE "false"
      [] k.t = "none" -> "null"
      [] OTHER -> k.s

RECURSIVE json_dumps(_)
json_dumps(value) ==
    CASE value.t = "str" -> Scalar("string", value.s)
      [] value.t = "int" -> Scalar("number", value.s)
      [] value.t = "bool" -> Scalar("boolean", value.s)
      [] value.t = "none" -> Scalar("null", value.s)
      [] value.t \in {"list", "tuple"} ->
           Items("array", [i \in DOMAIN value.items |-> json_dumps(value.items[i])])
      [] OTHER ->
           Members("object", {<<Scalar("string", KeyText(member[1])), json_dumps(member[2])>> :
                                  member \in value.members})

(* a decrypt that hands the document back without parsing it *)
json_loads_Unparsed(document) == document

RECURSIVE json_loads(_)
json_loads(document) ==
    CASE document.t = "string" -> Scalar("str", document.s)
      [] document.t = "number" -> Scalar("int", document.s)
      [] document.t = "boolean" -> Scalar("bool", document.s)
      [] document.t = "null" -> Scalar("none", document.s)
      [] document.t = "array" ->
           Items("list", [i \in DOMAIN document.items |-> json_loads(document.items[i])])
      [] OTHER ->
           Members("dict", {<<Scalar("str", k.s), json_loads(Member(document, k))>> :
                                k \in MemberKeys(document)})

(* one map through encrypt_credentials and decrypt_credentials *)
RoundTrip ==
    /\ out.op = "credentials"
    /\ LET stored == encrypt_credentials(json_dumps(out.c))
       IN out' = [op |-> "round_trip", c |-> out.c, stored |-> stored,
                  back |-> json_loads(decrypt_credentials(stored))]
    /\ UNCHANGED <<rows, nextId, nextNonce, calls, req, last, prev, consumed, prov, workers>>

InitJson ==
    /\ rows = {}
    /\ nextId = 1
    /\ nextNonce = 0
    /\ calls = 0
    /\ req = [r \in Slots |-> Idle]
    /\ last = NoResp
    /\ prev = NoResp
    /\ consumed = {}
    /\ prov = None
    /\ workers = 1
    /\ \E c \in CredentialMaps : out = [op |-> "credentials", c |-> c]

SpecJson == InitJson /\ [][RoundTrip]_vars

(* string keys, and no tuple, all the way down *)
RECURSIVE JsonNative(_)
JsonNative(value) ==
    CASE value.t = "tuple" -> FALSE
      [] value.t = "list" -> \A i \in DOMAIN value.items : JsonNative(value.items[i])
      [] value.t = "dict" ->
           \A member \in value.members : member[1].t = "str" /\ JsonNative(member[2])
      [] OTHER -> TRUE

(* C22 as stated: every credential map json.dumps accepts comes back equal
   from decrypt_credentials(encrypt_credentials(c)). *)
C22_RoundTripEveryMap ==
    out.op = "round_trip" => out.back = out.c

(* C22: a credential map whose keys are strings and whose values are
   strings, integers, booleans, None, lists and string-keyed maps of these
   comes back equal from decrypt_credentials(encrypt_credentials(c)). *)
C22_RoundTripJsonNative ==
    out.op = "round_trip" /\ JsonNative(out.c) => out.back = out.c

(* a map of two keys holding a nested map and a list has gone round *)
C22_Witness ==
    /\ out.op = "round_trip"
    /\ JsonNative(out.c)
    /\ \E m1, m2 \in out.c.members :
          /\ m1[2].t = "dict" /\ m1[2].members # {}
          /\ m2[2].t = "list" /\ m2[2].items # <<>>
    /\ out.back = out.c

-----------------------------------------------------------------------------
(* Properties of the registry: the is_active flag *)

(* C23: the is_active value of an existing row changes only in the step of
   the generic update operation; connect on an existing row, credential
   store, OAuth completion, save-config and token refresh leave it as it
   was. *)
C23_ActiveOnlyByUpdate ==
    [][\A row \in rows : \A after \in rows' :
          (row.id = after.id /\ row.is_active # after.is_active) =>
              Answered("update")
      ]_vars

-----------------------------------------------------------------------------
(* Properties of the capability requests: the Calendly step of book-meeting *)

PermanentLink ==
    \E row \in Matches(rows, "calendly", TRUE, TRUE) :
        DecryptOk(row.config)
          /\ ~Falsy(Get(decrypt_credentials(row.config), "calendly_scheduling_url"))

Earliest(places) == CHOOSE i \in places : \A j \in places : i <= j

ActiveTypes(collection) == {i \in DOMAIN collection : collection[i].active}

MatchingTypes(collection, duration_minutes) ==
    {i \in ActiveTypes(collection) : collection[i].duration = duration_minutes}

(* C24: in book-meeting's Calendly step a stored permanent scheduling URL is
   returned without a vendor call; otherwise the link returned is that of
   the first active event type of the requested duration or, when no active
   type has that duration, of the first active event type; an inactive type
   is never selected; and with no active event type Calendly is not among
   the integrations used. *)
C24_CalendlySelection ==
    Booked =>
      LET step == out.steps["calendly"]
          collection == out.event_types
          matching == MatchingTypes(collection, out.request.duration_minutes)
      IN /\ PermanentLink =>
               /\ step.used
               /\ \E row \in Matches(rows, "calendly", TRUE, TRUE) :
                     step.detail =
                        [kind |-> "permanent_link",
                         link |-> Get(decrypt_credentials(row.config),
                                      "calendly_scheduling_url")]
               /\ step.call = NoCall
         /\ (~PermanentLink /\ step.used) =>
               /\ step.detail.kind = "event_type_link"
               /\ step.detail.event_type.active
               /\ step.detail.event_type =
                     IF matching # {} THEN collection[Earliest(matching)]
                     ELSE collection[Earliest(ActiveTypes(collection))]
         /\ (~PermanentLink /\ ActiveTypes(collection) = {}) => ~step.used
         /\ (out.response.status = 200) =>
               (step.used <=>
                  \E i \in DOMAIN out.response.integrations_used :
                      out.response.integrations_used[i] = "Calendly")

(* a listing whose first type is active and of another duration and whose
   second type is active and of the requested duration: the second is taken *)
C24_Witness ==
    /\ Booked
    /\ ~PermanentLink
    /\ out.steps["calendly"].used
    /\ Len(out.event_types) = 2
    /\ out.event_types[1].active
    /\ out.event_types[1].duration # out.request.duration_minutes
    /\ out.steps["calendly"].detail.event_type = out.event_types[2]

-----------------------------------------------------------------------------
(* Properties of the Tool Bridge: what the text tells the agent *)

StatesSent(text) ==
    text \in {"sent successfully",
              "Meeting booked successfully. Confirmation details have been sent to the customer."}

(* C25: the text result of send_sms, send_email and book_meeting states that
   the SMS or email was sent, or that confirmation details were sent to the
   customer, only when the downstream response reported it (success = true
   for send-sms and send-email, email_sent = true for book-meeting); and a
   200 response carrying success = false becomes an error text. *)
C25_SentOnlyWhenReported ==
    (out.op = "tool_call" /\ out.name \in {"send_sms", "send_email", "book_meeting"}
        /\ out.result.kind = "text") =>
      /\ StatesSent(out.result.text) =>
            /\ out.result.sent # << >>
            /\ out.result.sent[1].status = 200
            /\ IF out.name = "book_meeting"
                 THEN out.result.sent[1].body = "success"
                 ELSE out.result.sent[1].body \in Successes
      /\ (out.result.sent # << >> /\ out.result.sent[1].kind = "response"
            /\ out.result.sent[1].status = 200 /\ out.result.sent[1].body = "failure") =>
            ~StatesSent(out.result.text)

-----------------------------------------------------------------------------
(* Several channel sessions at once.  jwt_token_var is a ContextVar: a value
   set in it lives in the context of the task that set it.  Every GET /sse
   request runs in a task of its own, whose context starts from the server's,
   where the variable has its default; mcp_server.run dispatches the tool
   calls of the session from inside that task, so a handler reads the
   variable in a copy of the session's context. *)

MaxSessions == 2
Sessions == 1..MaxSessions

NoSession == [open |-> FALSE, authorization |-> None, x_organization_id |-> None,
              jwt_token |-> None]

(* one value for the whole module instead of one for each context *)
set_jwt_token_Shared(contexts, s, token) ==
    [x \in DOMAIN contexts |-> [contexts[x] EXCEPT !.jwt_token = token]]

set_jwt_token(contexts, s, token) == [contexts EXCEPT ![s].jwt_token = token]

get_jwt_token(contexts, s) == contexts[s].jwt_token

(* GET /sse: the request's context, with the variable set from the headers *)
OpenSession(s, authorization, x_organization_id) ==
    /\ out.op \in {"sessions", "open", "invoke", "close"}
    /\ ~out.contexts[s].open
    /\ out' = [op |-> "open",
               contexts |->
                  set_jwt_token(
                     [out.contexts EXCEPT ![s] =
                        [open |-> TRUE, authorization |-> authorization,
                         x_organization_id |-> x_organization_id, jwt_token |-> None]],
                     s, sse_endpoint(authorization, x_organization_id)),
               sent |-> out.sent]
    /\ UNCHANGED <<rows, nextId, nextNonce, calls, req, last, prev, consumed, prov, workers>>

(* a tool call arriving on session s: the headers of its downstream request *)
InvokeTool(s, name) ==
    /\ out.op \in {"sessions", "open", "invoke", "close"}
    /\ out.contexts[s].open
    /\ out' = [op |-> "invoke", contexts |-> out.contexts,
               sent |-> [session |-> s, name |-> name,
                         headers |-> get_auth_headers(get_jwt_token(out.contexts, s))]]
    /\ UNCHANGED <<rows, nextId, nextNonce, calls, req, last, prev, consumed, prov, workers>>

(* the client goes away: the request's task ends and its context with it *)
CloseSession(s) ==
    /\ out.op \in {"sessions", "open", "invoke", "close"}
    /\ out.contexts[s].open
    /\ out' = [op |-> "close", contexts |-> [out.contexts EXCEPT ![s] = NoSession],
               sent |-> out.sent]
    /\ UNCHANGED <<rows, nextId, nextNonce, calls, req, last, prev, consumed, prov, workers>>

InitSessions ==
    /\ rows = {}
    /\ nextId = 1
    /\ nextNonce = 0
    /\ calls = 0
    /\ req = [r \in Slots |-> Idle]
    /\ last = NoResp
    /\ prev = NoResp
    /\ consumed = {}
    /\ prov = None
    /\ workers = 1
    /\ out = [op |-> "sessions", contexts |-> [s \in Sessions |-> NoSession],
              sent |-> [session |-> 0, name |-> None, headers |-> NoHeaders]]

NextSessions ==
    \E s \in Sessions :
        \/ \E authorization \in Tokens \cup {None}, x_organization_id \in Orgs \cup {None} :
              OpenSession(s, authorization, x_organization_id)
        \/ \E name \in ToolNames : InvokeTool(s, name)
        \/ CloseSession(s)

SpecSessions == InitSessions /\ [][NextSessions]_vars

(* C26: with several sessions open at once under different authentication
   contexts, a tool invocation sends downstream the headers of the session it
   arrived on: Authorization: Bearer with the token the session was opened
   with, else X-Organization-ID with the organization id it was opened with,
   whatever other sessions were opened, used or closed in between. *)
C26_OwnSessionHeaders ==
    out.op = "invoke" =>
       LET opened == out.contexts[out.sent.session]
       IN out.sent.headers =
            IF opened.authorization # None
              THEN [authorization |-> opened.authorization, x_organization_id |-> None]
              ELSE [authorization |-> None,
                    x_organization_id |-> opened.x_organization_id]

(* two sessions open, one with a token and one with an organization id; the
   call arrived on the one opened first *)
C26_Witness ==
    /\ out.op = "invoke"
    /\ \A s \in Sessions : out.contexts[s].open
    /\ out.sent.session = 1
    /\ out.contexts[1].authorization = ValidToken
    /\ out.contexts[2].authorization = None
    /\ out.contexts[2].x_organization_id = OrgB
    /\ out.sent.headers.authorization = ValidToken

-----------------------------------------------------------------------------
(* Properties of the registry: connect and complete interleaved *)

(* the row holds the oauth_state of a connect other than the one the
   complete request c validated against *)
WrittenByLaterConnect(row, c) ==
    /\ DecryptOk(row.config)
    /\ ~Falsy(Get(decrypt_credentials(row.config), "oauth_state"))
    /\ Get(decrypt_credentials(row.config), "oauth_state") # c.state

ClientCredentials(row) ==
    <<Get(decrypt_credentials(row.config), "client_id"),
      Get(decrypt_credentials(row.config), "client_secret")>>

(* C27: in every interleaving of connect and complete on one integration,
   the commit of a complete leaves alone a config that a connect wrote after
   the complete validated its state, and a row it leaves connected holds the
   client credentials the row held before the commit, those of the most
   recent connect. *)
C27_CompleteKeepsLaterConnect ==
    [][\A r \in Slots :
          (req[r].pc = "complete_exchange" /\ req'[r].pc = "idle") =>
             \A row \in ById(rows, req[r].snap.id) :
                \A after \in ById(rows', row.id) :
                   /\ WrittenByLaterConnect(row, req[r]) => (after.config = row.config)
                   /\ (after.is_connected /\ DecryptOk(row.config)) =>
                         (ClientCredentials(after) = ClientCredentials(row))
      ]_vars

-----------------------------------------------------------------------------
(* Properties of the registry: Zoho Bookings save-config interleaved *)

SavedIds(row) ==
    <<Get(decrypt_credentials(row.config), "service_id"),
      Get(decrypt_credentials(row.config), "staff_id")>>

(* C28: however a Zoho Bookings save-config interleaves with a create-booking
   in flight that persists a refreshed token, or with an OAuth complete in
   flight, the commit of the create-booking or of the complete leaves the
   stored service_id and staff_id as save-config last wrote them. *)
C28_SavedIdsKept ==
    [][(prov = "zoho_bookings" /\ (Answered("capability") \/ Answered("complete"))) =>
          \A row \in rows : \A after \in ById(rows', row.id) :
              (DecryptOk(row.config) /\ DecryptOk(after.config)) =>
                  (SavedIds(after) = SavedIds(row))
      ]_vars

-----------------------------------------------------------------------------
(* Properties of the provider clients: the retry after a refresh *)

(* C29: in every provider client the request sent again after a 401 and a
   token refresh is the first request with the refreshed access token: the
   same endpoint, the same payload, the same body encoding. *)
C29_RetrySameRequest ==
    out.op # "none" =>
        \A p \in DOMAIN out.steps :
            LET requests == out.steps[p].call.requests
            IN Len(requests) = 2 =>
                  /\ requests[2] = [requests[1] EXCEPT !.token = requests[2].token]
                  /\ requests[2].token = out.steps[p].call.refreshed

-----------------------------------------------------------------------------
(* Properties of the capability requests: the not-connected failure *)

(* C30: book-meeting answers the 404 'No meeting integrations are connected'
   only for an organization without an active, connected meeting
   integration; with a meeting provider connected and every attempted
   provider call failing, the failure returned is another one. *)
C30_NotConnectedOnlyWhenNone ==
    (Booked /\ out.response = NotConnected) =>
        \A p \in BookProviders : ~Connected(p)

====
